---- MODULE Spec2Model ----
(***************************************************************************)
(* Model of the wkkkis-hooks command-line installer (src/cli.ts).          *)
(*                                                                         *)
(* Text is modelled as a sequence of tokens: a file is the sequence of its *)
(* tokens, a newline is a token of its own, so that "the last line has no  *)
(* newline", "two statements on one line" and "text after the statement"   *)
(* are all expressible.  Names (hook ids, file base names) are sequences   *)
(* of dot-separated parts, paths are a directory (sequence of segments)    *)
(* plus a file name (sequence of parts, the last one the extension).       *)
(***************************************************************************)
EXTENDS Integers, Sequences, FiniteSets, TLC

VARIABLES
  fs,             \* the project's files: path -> content (token sequence)
  dirs,           \* the project's directories
  cfg,            \* hooks.config.json (present = FALSE: no file)
  registry,       \* the remote registry snapshot the commands fetch
  pc,             \* position of the running command
  op,             \* the running (or last) command and its resolved options
  nextFile,       \* installHook: index of the file descriptor the loop is at
  lastExportName, \* installHook: local of the same name (<<>> = null)
  err,            \* error the command ended with ("" = none)
  out,            \* the lines the command printed
  pending,        \* cmdOutdated, cmdSearch: the requests in flight
  anyOut,         \* cmdOutdated: local `any`
  lost,           \* history: the requests that failed and were caught
  fs0,            \* history: fs when the running command started
  cfg0,           \* history: cfg when the running command started
  dirs0,          \* history: dirs when the running command started
  last,           \* history: the last destination write of installHook
  prev,           \* history: the install or migrate of the previous process
  nOps,           \* number of commands started
  nextHook,       \* cmdSearch: local `i`, as the position of the next hook
  results,        \* cmdSearch: local `results`
  exit,           \* how the process ended: exit code, who wrote to stderr
  requested,      \* history of cmdSearch: the hooks whose meta.json was
                  \* requested, in the order of the requests
  kept            \* history: the hooks installed by a successful non-dry
                  \* add or update and not removed since, with the root and
                  \* the index maintenance of their last install

vars == <<fs, dirs, cfg, registry, pc, op, nextFile, lastExportName, err, out,
          pending, anyOut, lost, fs0, cfg0, dirs0, last, prev, nOps, nextHook,
          results, exit, requested, kept>>

(***************************************************************************)
(* Bounds                                                                  *)
(***************************************************************************)
MaxOps == 2

(***************************************************************************)
(* Tokens                                                                  *)
(***************************************************************************)
Tok(kind, n, v, r) == [k |-> kind, n |-> n, v |-> v, r |-> r]

NL == Tok("NL", <<>>, <<>>, "")             \* "\n"
OtherText == Tok("X", <<>>, <<>>, "")       \* text holding no quote, no newline
UseClient == Tok("UC", <<>>, <<>>, "")      \* "use client";
\* export * from "./<n>";
ExportStmt(n) == Tok("E", n, <<>>, "")
\* /* Installed via wkkkis-hooks | hook:<id>@<v> | registry:<r> */
HeaderTok(id, v, r) == Tok("H", id, v, r)
\* an import-like statement of shape r ("from", "import(", "export*from",
\* "require(") whose module path has the segments n, written with double
\* quotes
ImportStmt(shape, n) == Tok("IMP", n, <<>>, shape)
\* the same statement written with the quote character q around the path
ImportStmtQuoted(shape, n, q) == Tok("IMP", n, <<q>>, shape)
\* a quoted string n that is not the source of an import-like statement
PlainString(n) == Tok("STR", n, <<>>, "")

(***************************************************************************)
(* Sequences                                                               *)
(***************************************************************************)
IsPrefix(s, t) == Len(s) <= Len(t) /\ SubSeq(t, 1, Len(s)) = s

Drop(s, n) == SubSeq(s, n + 1, Len(s))

RemoveAt(s, i, n) == SubSeq(s, 1, i - 1) \o SubSeq(s, i + n, Len(s))

\* String.prototype.includes on token sequences
Includes(s, t) ==
  \E i \in 1..(Len(s) - Len(t) + 1) : SubSeq(s, i, i + Len(t) - 1) = t

(***************************************************************************)
(* Paths                                                                   *)
(***************************************************************************)
Path(dir, name) == [dir |-> dir, name |-> name]

\* path.parse(p).name: the file name without its last extension
fileBaseName(p) ==
  IF Len(p.name) > 1 THEN SubSeq(p.name, 1, Len(p.name) - 1) ELSE p.name

\* `${filePath}.bak`
BakPath(p) == Path(p.dir, p.name \o <<"bak">>)

IsBak(p) == Len(p.name) > 1 /\ p.name[Len(p.name)] = "bak"

Ancestors(d) == {SubSeq(d, 1, i) : i \in 0..Len(d)}

\* fs.promises.mkdir(d, {recursive: true})
ensureDir(ds, d) == ds \cup Ancestors(d)

WriteFile(f, p, c) == [q \in DOMAIN f \cup {p} |-> IF q = p THEN c ELSE f[q]]

Unlink(f, p) == [q \in DOMAIN f \ {p} |-> f[q]]

Exists(f, p) == p \in DOMAIN f

DefaultBaseDir == <<"src", "hooks">>

\* the directory names of the model that start with the characters "hooks"
\* and go on
HooksLike == {"hooks-extra"}

\* seg.replace(/^hooks/, name): the name seg of HooksLike with its first five
\* characters replaced by the directory name `name`
ReplaceHooks(seg, name) ==
  CASE seg = "hooks-extra" /\ name = "hooks" -> "hooks-extra"

\* remapToBaseDir: /^(?:src\/)?hooks/ is replaced by baseDir.  The pattern
\* ends at no separator, so it also matches the start of a longer directory
\* name; a destination that starts otherwise is left as it is
remapToBaseDir(originalTo, baseDir) ==
  LET d == originalTo.dir
  IN IF IsPrefix(<<"src", "hooks">>, d)
       THEN Path(baseDir \o Drop(d, 2), originalTo.name)
     ELSE IF IsPrefix(<<"hooks">>, d)
       THEN Path(baseDir \o Drop(d, 1), originalTo.name)
     ELSE IF d # <<>> /\ d[1] \in HooksLike
       THEN Path(SubSeq(baseDir, 1, Len(baseDir) - 1)
                   \o << ReplaceHooks(d[1], baseDir[Len(baseDir)]) >>
                   \o Drop(d, 1), originalTo.name)
     ELSE originalTo

(***************************************************************************)
(* Pure functions of the installer                                         *)
(***************************************************************************)
RECURSIVE CountNL(_)
\* number of newline tokens s starts with
CountNL(s) == IF s # <<>> /\ s[1] = NL THEN 1 + CountNL(Tail(s)) ELSE 0

RECURSIVE removeUseClient_AnyLine(_)
\* mutant: the pattern has the m flag, the first line that holds the
\* directive alone is removed wherever it stands
removeUseClient_AnyLine(src) ==
  IF src = <<>> THEN src
  ELSE IF src[1] = UseClient /\ Len(src) > 1 /\ src[2] = NL
    THEN Drop(src, 2)
  ELSE <<src[1]>> \o removeUseClient_AnyLine(Tail(src))

\* src.replace(/^\s*['"]use client['"];\s*\r?\n/, ""): no m flag, so only the
\* start of the text; \s* also consumes the blank lines around the directive
removeUseClient(src) ==
  LET lead == CountNL(src)
      rest == Drop(src, lead)
  IN IF rest # <<>> /\ rest[1] = UseClient /\ CountNL(Tail(rest)) >= 1
       THEN Drop(Tail(rest), CountNL(Tail(rest)))
       ELSE src

RECURSIVE ResolveSegs(_, _)
\* path.resolve(base, segs) on segment sequences
ResolveSegs(base, segs) ==
  IF segs = <<>> THEN base
  ELSE IF segs[1] = "." THEN ResolveSegs(base, Tail(segs))
  ELSE IF segs[1] = ".."
    THEN ResolveSegs(IF base = <<>> THEN base
                     ELSE SubSeq(base, 1, Len(base) - 1), Tail(segs))
  ELSE ResolveSegs(Append(base, segs[1]), Tail(segs))

\* cwd(p) = path.resolve(process.cwd(), p); paths are written from the
\* project root, above which the model has nothing
cwd(p) == Path(ResolveSegs(<<>>, p.dir), p.name)

RECURSIVE CommonLen(_, _)
CommonLen(a, b) ==
  IF a # <<>> /\ b # <<>> /\ a[1] = b[1]
    THEN 1 + CommonLen(Tail(a), Tail(b)) ELSE 0

\* mutant: the path is taken relative to the project root
Relative_FromProjectRoot(from, to) == to

\* path.relative(from, to) on segment sequences
Relative(from, to) ==
  LET c == CommonLen(from, to)
  IN [i \in 1..(Len(from) - c) |-> ".."] \o Drop(to, c)

\* the segments of the model whose first character is a dot
DotSegments == {".", "..", ".cfg"}

\* rel.startsWith("."): true also for a first segment such as .cfg
StartsWithDot(rel) == rel # <<>> /\ rel[1] \in DotSegments

\* the replace callback of rewriteAliasImports for one matched statement:
\* `${left}${normalized}${right}`, so only the path of the statement changes
RewriteOne(t, prefix, targetAbs, destDir) ==
  LET subpath == Drop(t.n, Len(prefix))
      abs == ResolveSegs(targetAbs, subpath)
      rel == Relative(destDir, abs)
      normalized == IF StartsWithDot(rel) THEN rel ELSE <<".">> \o rel
  IN [t EXCEPT !.n = normalized]

\* mutant: the early return for an absent prefix or target is missing
rewriteAliasImports_NoEarlyReturn(code, aliasPrefix, aliasTarget, destAbsFile) ==
  [i \in 1..Len(code) |->
     IF /\ code[i].k = "IMP"
        /\ IsPrefix(aliasPrefix, code[i].n)
        /\ Len(code[i].n) > Len(aliasPrefix)
       THEN RewriteOne(code[i], aliasPrefix,
                       ResolveSegs(<<>>, aliasTarget), destAbsFile.dir)
       ELSE code[i]]

\* rewriteAliasImports(code, aliasPrefix, aliasTarget, destAbsFile, cwd):
\* the regular expression matches the four import shapes whose module path
\* starts with the prefix and has a non-empty subpath after it
rewriteAliasImports(code, aliasPrefix, aliasTarget, destAbsFile) ==
  IF aliasPrefix = <<>> \/ aliasTarget = <<>> THEN code
  ELSE [i \in 1..Len(code) |->
          IF /\ code[i].k = "IMP"
             /\ IsPrefix(aliasPrefix, code[i].n)
             /\ Len(code[i].n) > Len(aliasPrefix)
            THEN RewriteOne(code[i], aliasPrefix,
                            ResolveSegs(<<>>, aliasTarget), destAbsFile.dir)
            ELSE code[i]]

NoParse == [id |-> <<>>, version |-> <<>>]

RECURSIVE FirstHeader(_)
\* first match of /hook:([a-z0-9-]+)@([0-9]+\.[0-9]+\.[0-9]+)/i in the text:
\* a header whose version has fewer than three numeric parts does not match
FirstHeader(s) ==
  IF s = <<>> THEN NoParse
  ELSE IF s[1].k = "H" /\ s[1].n # <<>> /\ Len(s[1].v) >= 3
    THEN [id |-> s[1].n, version |-> SubSeq(s[1].v, 1, 3)]
  ELSE FirstHeader(Tail(s))

\* parseLocalHookVersion(filePath); every text of the model is shorter than
\* the 2048 characters the function reads
parseLocalHookVersion(f, filePath) ==
  IF ~Exists(f, filePath) THEN NoParse ELSE FirstHeader(f[filePath])

ZeroVersion == <<0, 0, 0>>

\* pa[i] || 0
Part(v, i) == IF i <= Len(v) THEN v[i] ELSE 0

cmpSemver(a, b) ==
  IF Part(a, 1) # Part(b, 1) THEN Part(a, 1) - Part(b, 1)
  ELSE IF Part(a, 2) # Part(b, 2) THEN Part(a, 2) - Part(b, 2)
  ELSE Part(a, 3) - Part(b, 3)

\* mutant: the default "0.0.0" of an absent version is forgotten
HeaderLine_NoDefault(meta, reg) ==
  << HeaderTok(meta.id, meta.version,
               IF reg.version = "" THEN "0" ELSE reg.version),
     NL >>

\* the header line installHook prepends (with its newline)
HeaderLine(meta, reg) ==
  << HeaderTok(meta.id,
               IF meta.version = <<>> THEN ZeroVersion ELSE meta.version,
               IF reg.version = "" THEN "0" ELSE reg.version),
     NL >>

(***************************************************************************)
(* Local Inventory Reader                                                  *)
(***************************************************************************)
RECURSIVE SetToSeq(_)
\* some enumeration of a set of paths (readdir's order)
SetToSeq(S) ==
  IF S = {} THEN <<>>
  ELSE LET x == CHOOSE y \in S : TRUE IN <<x>> \o SetToSeq(S \ {x})

\* walk(dir): every file below dir, at any depth
walk(f, dir) == SetToSeq({p \in DOMAIN f : IsPrefix(dir, p.dir)})

RECURSIVE SplitNL(_, _)
\* the lines of a text
SplitNL(s, cur) ==
  IF s = <<>> THEN <<cur>>
  ELSE IF s[1] = NL THEN <<cur>> \o SplitNL(Tail(s), <<>>)
  ELSE SplitNL(Tail(s), Append(cur, s[1]))

Quoted == {"E", "IMP", "STR", "UC"}

\* the capture of /export\s+\*\s+from\s+['"]\.\/(.+)['"];?/ in one line
\* (<<>>: no match).  (.+) is greedy: it runs to the last quote of the line,
\* so a line holding more quoted text after the statement yields a name that
\* is not the statement's
LineId(line) ==
  LET es == {i \in 1..Len(line) : line[i].k = "E"}
  IN IF es = {} THEN <<>>
     ELSE LET first == CHOOSE i \in es : \A j \in es : i <= j
          IN IF \E j \in (first + 1)..Len(line) : line[j].k \in Quoted
               THEN line[first].n \o <<"\"...">>
               ELSE line[first].n

IndexIds(content) ==
  LET lines == SplitNL(content, <<>>)
      caps == [i \in 1..Len(lines) |-> LineId(lines[i])]
  IN SelectSeq(caps, LAMBDA c : c # <<>>)

\* first parts of file names that start with "use-"
UsePrefixed ==
  {"use-a", "use-b", "use-b-core", "use-z", "use-q", "use-c", "use-d", "use-e",
   "use-f", "use-g", "use-h", "use-i", "use-j", "use-k", "use-l"}

\* /[/\\]use-[^/\\]+\.(t|j)s$/
IsHookFileName(p) ==
  /\ Len(p.name) >= 2
  /\ p.name[1] \in UsePrefixed
  /\ p.name[Len(p.name)] \in {"ts", "js"}

IndexTs(baseDir) == Path(baseDir, <<"index", "ts">>)
IndexJs(baseDir) == Path(baseDir, <<"index", "js">>)

listLocalHooks(f, ds, baseDir) ==
  IF Exists(f, IndexTs(baseDir)) \/ Exists(f, IndexJs(baseDir))
    THEN LET indexPath == IF Exists(f, IndexTs(baseDir))
                            THEN IndexTs(baseDir) ELSE IndexJs(baseDir)
             ids == IndexIds(f[indexPath])
         IN [i \in 1..Len(ids) |->
               LET ts == Path(baseDir, ids[i] \o <<"ts">>)
                   js == Path(baseDir, ids[i] \o <<"js">>)
               IN [id |-> ids[i], file |-> IF Exists(f, ts) THEN ts ELSE js]]
  ELSE IF baseDir \notin ds THEN <<>>
  ELSE LET files == SelectSeq(walk(f, baseDir), IsHookFileName)
       IN [i \in 1..Len(files) |->
             [id |-> fileBaseName(files[i]), file |-> files[i]]]

(***************************************************************************)
(* The registry (remote, read-only)                                        *)
(***************************************************************************)
IdA == <<"use-a">>
IdB == <<"use-b">>
IdZ == <<"use-z">>     \* a hook the registry does not list

FileDesc(to, text) == [to |-> to, text |-> text]

TextA ==
  << UseClient, NL, ImportStmt("from", <<"@", "lib", "util">>), NL,
     ImportStmt("from", <<"react">>), NL, OtherText, NL >>

TextBCore == << OtherText, NL >>

TextB ==
  << NL, UseClient, NL, NL,
     ImportStmt("require(", <<".", "sub", "use-b-core">>), NL,
     PlainString(<<"@", "lib", "util">>), NL >>

FilesA == << FileDesc(Path(<<"hooks">>, <<"use-a", "ts">>), TextA) >>

FilesB ==
  << FileDesc(Path(<<"src", "hooks", "sub">>, <<"use-b-core", "ts">>), TextBCore),
     FileDesc(Path(<<"src", "hooks">>, <<"use-b", "ts">>), TextB) >>

Entry(id, version, files) ==
  [id |-> id, meta |-> [id |-> id, version |-> version, files |-> files]]

\* two snapshots: one with versions everywhere, one whose registry version
\* and use-a version are absent (<<>> and "")
Registries ==
  { [version |-> "7",
     hooks |-> << Entry(IdA, <<1, 2, 0>>, FilesA), Entry(IdB, <<1, 10, 0>>, FilesB) >>],
    [version |-> "",
     hooks |-> << Entry(IdA, <<>>, FilesA), Entry(IdB, <<2, 0, 0>>, FilesB) >>] }

HasEntry(reg, id) == \E i \in 1..Len(reg.hooks) : reg.hooks[i].id = id

\* registry.hooks.find(h => h.id === id)
FindEntry(reg, id) ==
  reg.hooks[CHOOSE i \in 1..Len(reg.hooks) :
              /\ reg.hooks[i].id = id
              /\ \A j \in 1..(i - 1) : reg.hooks[j].id # id]

(***************************************************************************)
(* Project configuration                                                   *)
(***************************************************************************)
Config(baseDir, addIndex, strip, aliasPrefix, aliasTarget) ==
  [present |-> TRUE, baseDir |-> baseDir, addIndex |-> addIndex,
   stripUseClient |-> strip, aliasPrefix |-> aliasPrefix,
   aliasTarget |-> aliasTarget]

\* DEFAULT_CFG; with present = FALSE it also stands for "no config file"
DEFAULT_CFG ==
  [present |-> FALSE, baseDir |-> DefaultBaseDir, addIndex |-> TRUE,
   stripUseClient |-> FALSE, aliasPrefix |-> <<>>, aliasTarget |-> <<>>]

\* readConfig() ?? DEFAULT_CFG, and cfg?.x ?? <default of x>: the defaults
\* written at the call sites are those of DEFAULT_CFG
readConfig(c) == IF c.present THEN c ELSE DEFAULT_CFG

(***************************************************************************)
(* Starting states of the project directory                                *)
(***************************************************************************)
AltDir == <<"src", "shared", "hooks">>

Installed(id, v, r, body) == <<HeaderTok(id, v, r), NL>> \o body

Files(pairs) ==
  [p \in {pairs[i][1] : i \in 1..Len(pairs)} |->
     pairs[CHOOSE i \in 1..Len(pairs) : pairs[i][1] = p][2]]

InRoot(name) == Path(DefaultBaseDir, name)

\* an empty project without configuration
ProjectEmpty ==
  [fs |-> <<>>, dirs |-> Ancestors(<<"src">>), cfg |-> DEFAULT_CFG]

\* use-a was installed earlier, at an older version, with the index kept
ProjectOlder ==
  [fs |-> Files(<<
      <<InRoot(<<"use-a", "ts">>), Installed(IdA, <<1, 1, 9>>, "6", <<OtherText, NL>>)>>,
      <<InRoot(<<"index", "ts">>), <<ExportStmt(IdA), NL>> >> >>),
   dirs |-> Ancestors(DefaultBaseDir),
   cfg |-> Config(DefaultBaseDir, TRUE, TRUE, <<>>, <<>>)]

\* no index is kept (directory scan); one hook is newer than the registry's,
\* one is no longer listed by the registry, one file was written by hand;
\* the alias @/ -> src is configured
ProjectNoIndex ==
  [fs |-> Files(<<
      <<InRoot(<<"use-a", "ts">>), Installed(IdA, <<2, 0, 0>>, "9", <<OtherText, NL>>)>>,
      <<InRoot(<<"use-z", "ts">>), Installed(IdZ, <<1, 0, 0>>, "6", <<OtherText, NL>>)>>,
      <<InRoot(<<"use-b", "ts">>), <<OtherText, NL>> >> >>),
   dirs |-> Ancestors(DefaultBaseDir),
   cfg |-> Config(DefaultBaseDir, FALSE, FALSE, <<"@">>, <<"src">>)]

\* a JavaScript project with a hand-kept index.js: use-b.js is a copy of
\* use-a.js, its line carries a comment, and use-q has no file
ProjectJs ==
  [fs |-> Files(<<
      <<InRoot(<<"index", "js">>),
        <<ExportStmt(IdA), NL, ExportStmt(IdB), OtherText, NL,
          ExportStmt(<<"use-q">>), NL>> >>,
      <<InRoot(<<"use-a", "js">>), Installed(IdA, <<1, 2, 0>>, "7", <<OtherText, NL>>)>>,
      <<InRoot(<<"use-b", "js">>), Installed(IdA, <<1, 2, 0>>, "7", <<OtherText, NL>>)>> >>),
   dirs |-> Ancestors(DefaultBaseDir),
   cfg |-> DEFAULT_CFG]

\* use-b is installed and the index.ts does not end with a newline
ProjectNoFinalNewline ==
  [fs |-> Files(<<
      <<Path(DefaultBaseDir \o <<"sub">>, <<"use-b-core", "ts">>),
        Installed(IdB, <<1, 9, 0>>, "6", TextBCore)>>,
      <<InRoot(<<"use-b", "ts">>), Installed(IdB, <<1, 9, 0>>, "6", <<OtherText, NL>>)>>,
      <<InRoot(<<"index", "ts">>), <<ExportStmt(IdB)>> >> >>),
   dirs |-> Ancestors(DefaultBaseDir \o <<"sub">>),
   cfg |-> Config(DefaultBaseDir, TRUE, FALSE, <<>>, <<>>)]

SubDir == DefaultBaseDir \o <<"sub">>

\* use-a was installed twice, at different versions: into the install root
\* and, with --path=src/hooks/sub, into a directory below it
ProjectNested ==
  [fs |-> Files(<<
      <<InRoot(<<"use-a", "ts">>), Installed(IdA, <<1, 1, 9>>, "6", <<OtherText, NL>>)>>,
      <<InRoot(<<"index", "ts">>), <<ExportStmt(IdA), NL>> >>,
      <<Path(SubDir, <<"use-a", "ts">>),
        Installed(IdA, <<1, 2, 0>>, "7", <<OtherText, NL>>)>>,
      <<Path(SubDir, <<"index", "ts">>), <<ExportStmt(IdA), NL>> >> >>),
   dirs |-> Ancestors(SubDir),
   cfg |-> Config(DefaultBaseDir, TRUE, FALSE, <<>>, <<>>)]

Projects ==
  {ProjectEmpty, ProjectOlder, ProjectNoIndex, ProjectJs, ProjectNoFinalNewline,
   ProjectNested}

(***************************************************************************)
(* Commands                                                                *)
(***************************************************************************)
HookIds == {IdA, IdB, IdZ}

\* the value of --path=..; <<>> when the flag is not given
PathFlags == {<<>>, AltDir}

Terminal == {"done", "failed"}

\* net: what the network did to the fetches at the start of the command
Command(kind, id, baseDir, addIndex, dry, force, strip, net) ==
  [kind |-> kind, id |-> id, baseDir |-> baseDir, addIndex |-> addIndex,
   dry |-> dry, force |-> force, strip |-> strip, net |-> net]

NoCommand == Command("none", <<>>, <<>>, FALSE, FALSE, FALSE, FALSE, "ok")

\* what is remembered of the process that ran before: whether it was a
\* successful non-dry install, and then of which hook into which root, or a
\* migrate that moved the install root, and then to which root
NoInstall ==
  [installed |-> FALSE, migrated |-> FALSE, id |-> <<>>, baseDir |-> <<>>]

\* the process has not ended
Running == [code |-> -1, stderr |-> "none"]

NoWrite ==
  [valid |-> FALSE, dest |-> Path(<<>>, <<>>), existed |-> FALSE,
   before |-> <<>>, force |-> FALSE, header |-> <<>>, processed |-> <<>>]

Init ==
  /\ \E proj \in Projects :
       /\ fs = proj.fs
       /\ dirs = proj.dirs
       /\ cfg = proj.cfg
       /\ fs0 = proj.fs
       /\ dirs0 = proj.dirs
       /\ cfg0 = proj.cfg
  /\ registry \in Registries
  /\ pc = "idle"
  /\ op = NoCommand
  /\ nextFile = 1
  /\ lastExportName = <<>>
  /\ err = ""
  /\ out = <<>>
  /\ pending = {}
  /\ anyOut = FALSE
  /\ lost = {}
  /\ last = NoWrite
  /\ prev = NoInstall
  /\ nOps = 0
  /\ nextHook = 1
  /\ results = <<>>
  /\ exit = Running
  /\ requested = <<>>
  /\ kept = {}

\* main() dispatches the command of a new process
Begin(cmd, nextPc, e) ==
  /\ pc = "idle"
  /\ nOps < MaxOps
  /\ nOps' = nOps + 1
  /\ op' = cmd
  /\ pc' = nextPc
  /\ err' = e
  /\ UNCHANGED <<fs0, dirs0, cfg0, nextFile, lastExportName, last, lost, prev,
                 exit>>

\* the process is over and the next one starts; how a process ends is
\* followed by MainEnds
Exit ==
  /\ pc \in Terminal
  /\ pc' = "idle"
  /\ prev' = IF op.kind \in {"add", "update"} /\ pc = "done" /\ ~op.dry
               THEN [installed |-> TRUE, migrated |-> FALSE, id |-> op.id,
                     baseDir |-> op.baseDir]
             ELSE IF op.kind = "migrate" /\ pc = "done" /\ cfg # cfg0
               THEN [installed |-> FALSE, migrated |-> TRUE, id |-> <<>>,
                     baseDir |-> op.baseDir]
             ELSE NoInstall
  /\ op' = NoCommand
  /\ err' = ""
  /\ out' = <<>>
  /\ pending' = {}
  /\ anyOut' = FALSE
  /\ lost' = {}
  /\ nextFile' = 1
  /\ lastExportName' = <<>>
  /\ last' = NoWrite
  /\ nextHook' = 1
  /\ results' = <<>>
  /\ requested' = <<>>
  /\ kept' = LET others == {k \in kept : k.id # op.id \/ k.baseDir # op.baseDir}
              IN IF op.kind \in {"add", "update"} /\ pc = "done" /\ ~op.dry
                   THEN others \cup {[id |-> op.id, baseDir |-> op.baseDir,
                                      addIndex |-> op.addIndex]}
                 ELSE IF op.kind = "remove" /\ pc = "done" THEN others
                 ELSE kept
  /\ fs0' = fs
  /\ dirs0' = dirs
  /\ cfg0' = cfg
  /\ UNCHANGED <<fs, dirs, cfg, registry, nOps, exit>>

\* what the fetches at the start of a command do: the registry is fetched,
\* the id is looked up, then the hook's meta.json is fetched
Networks == {"ok", "registry-fails", "meta-fails"}

\* mutant: the entry is not checked, the meta.json of an unknown hook is
\* requested and the request fails
Lookup_NoEntryCheck(id, net, okPc) ==
  IF net = "registry-fails" THEN <<"failed", "Fetch">>
  ELSE IF ~HasEntry(registry, id) \/ net = "meta-fails"
    THEN <<"failed", "Fetch">>
  ELSE <<okPc, "">>

\* first part of installHook / cmdRemove / cmdInfo: up to the meta fetch
Lookup(id, net, okPc) ==
  IF net = "registry-fails" THEN <<"failed", "Fetch">>
  ELSE IF ~HasEntry(registry, id) THEN <<"failed", "Unknown hook">>
  ELSE IF net = "meta-fails" THEN <<"failed", "Fetch">>
  ELSE <<okPc, "">>

\* opts?.baseDir ?? cfg?.baseDir ?? "src/hooks"
ResolveBaseDir(pathFlag) ==
  IF pathFlag # <<>> THEN pathFlag ELSE readConfig(cfg).baseDir

\* mutant: the root given with --path is saved as the configured root
cmdAdd_SavesPath(id, pathFlag, noIndex, net) ==
  LET r == Lookup(id, net, "files")
      addIndex == IF noIndex THEN FALSE ELSE readConfig(cfg).addIndex
  IN /\ Begin(Command("add", id, ResolveBaseDir(pathFlag), addIndex, FALSE,
                      FALSE, readConfig(cfg).stripUseClient, net), r[1], r[2])
     /\ out' = <<>>
     /\ cfg' = IF pathFlag = <<>> THEN cfg
               ELSE [readConfig(cfg) EXCEPT !.present = TRUE,
                                            !.baseDir = pathFlag]
     /\ UNCHANGED <<fs, dirs, registry, pending, anyOut, nextHook, results,
                    requested, kept>>

\* cmdAdd -> installHook, up to the loop over meta.files
cmdAdd(id, pathFlag, noIndex, net) ==
  LET r == Lookup(id, net, "files")
      addIndex == IF noIndex THEN FALSE ELSE readConfig(cfg).addIndex
  IN /\ Begin(Command("add", id, ResolveBaseDir(pathFlag), addIndex, FALSE,
                      FALSE, readConfig(cfg).stripUseClient, net), r[1], r[2])
     /\ out' = <<>>
     /\ UNCHANGED <<fs, dirs, cfg, registry, pending, anyOut, nextHook, results,
                    requested, kept>>

\* mutant: update compares versions first, as outdated does, and leaves a hook
\* alone whose installed files are not behind the registry
cmdUpdate_SkipsWhenCurrent(id, pathFlag, dry, force, net) ==
  LET r == Lookup(id, net, "files")
      baseDir == ResolveBaseDir(pathFlag)
      meta == FindEntry(registry, id).meta
      remote == IF meta.version = <<>> THEN ZeroVersion ELSE meta.version
      current ==
        /\ r[1] = "files"
        /\ \A i \in 1..Len(meta.files) :
             LET d == cwd(remapToBaseDir(meta.files[i].to, baseDir))
             IN /\ Exists(fs, d)
                /\ parseLocalHookVersion(fs, d).version # <<>>
                /\ cmpSemver(parseLocalHookVersion(fs, d).version, remote) >= 0
  IN /\ Begin(Command("update", id, baseDir, readConfig(cfg).addIndex, dry,
                      force, readConfig(cfg).stripUseClient, net),
              IF current THEN "done" ELSE r[1], r[2])
     /\ out' = <<>>
     /\ UNCHANGED <<fs, dirs, cfg, registry, pending, anyOut, nextHook, results,
                    requested, kept>>

\* cmdUpdate -> installHook, up to the loop over meta.files
cmdUpdate(id, pathFlag, dry, force, net) ==
  LET r == Lookup(id, net, "files")
  IN /\ Begin(Command("update", id, ResolveBaseDir(pathFlag),
                      readConfig(cfg).addIndex, dry, force,
                      readConfig(cfg).stripUseClient, net), r[1], r[2])
     /\ out' = <<>>
     /\ UNCHANGED <<fs, dirs, cfg, registry, pending, anyOut, nextHook, results,
                    requested, kept>>

Meta == FindEntry(registry, op.id).meta

\* the fetched text as it is written: directive stripped, aliases rewritten
ProcessSource(text, strip, c, dest) ==
  rewriteAliasImports(IF strip THEN removeUseClient(text) ELSE text,
                      c.aliasPrefix, c.aliasTarget, dest)

\* mutant: the backup is taken after the destination was overwritten
WriteDest_BackupAfterWrite(f, dest, force, text) ==
  IF Exists(f, dest) /\ ~force
    THEN WriteFile(WriteFile(f, dest, text), BakPath(dest), text)
    ELSE WriteFile(f, dest, text)

\* mutant: a destination that exists is not overwritten
WriteDest_KeepsExisting(f, dest, force, text) ==
  IF Exists(f, dest) THEN f ELSE WriteFile(f, dest, text)

\* mutant: force is ignored, an existing destination is always backed up
WriteDest_AlwaysBackup(f, dest, force, text) ==
  WriteFile(IF Exists(f, dest)
              THEN WriteFile(f, BakPath(dest), f[dest]) ELSE f,
            dest, text)

\* backupFile(dest) unless forced or absent, then writeFile(dest, text)
WriteDest(f, dest, force, text) ==
  WriteFile(IF Exists(f, dest) /\ ~force
              THEN WriteFile(f, BakPath(dest), f[dest]) ELSE f,
            dest, text)

\* what one iteration of installHook's loop meets: the source is fetched and
\* written, getText throws, or fs.promises.writeFile throws
FileOutcomes == {"ok", "fetch-fails", "write-fails"}

\* lines 365-373 followed by a writeFile that throws: the directory and the
\* backup were made, the destination is as it was
BackupOnly(f, dest, force) ==
  IF Exists(f, dest) /\ ~force THEN WriteFile(f, BakPath(dest), f[dest]) ELSE f

\* one iteration of installHook's loop over meta.files
InstallFile(outcome) ==
  /\ pc = "files"
  /\ nextFile <= Len(Meta.files)
  /\ LET f == Meta.files[nextFile]
         dest == cwd(remapToBaseDir(f.to, op.baseDir))
         content == ProcessSource(f.text, op.strip, readConfig(cfg), dest)
         header == HeaderLine(Meta, registry)
     IN IF op.dry
          THEN /\ lastExportName' = fileBaseName(dest)
               /\ nextFile' = nextFile + 1
               /\ UNCHANGED <<fs, dirs, pc, err, last>>
        ELSE IF outcome = "fetch-fails"
          THEN /\ pc' = "failed"
               /\ err' = "Fetch"
               /\ UNCHANGED <<fs, dirs, nextFile, lastExportName, last>>
        ELSE IF outcome = "write-fails"
          THEN /\ pc' = "failed"
               /\ err' = "Write"
               /\ dirs' = ensureDir(dirs, dest.dir)
               /\ fs' = BackupOnly(fs, dest, op.force)
               /\ UNCHANGED <<nextFile, lastExportName, last>>
        ELSE /\ dirs' = ensureDir(dirs, dest.dir)
             /\ fs' = WriteDest(fs, dest, op.force, header \o content)
             /\ last' = [valid |-> TRUE, dest |-> dest,
                         existed |-> Exists(fs, dest),
                         before |-> IF Exists(fs, dest) THEN fs[dest] ELSE <<>>,
                         force |-> op.force, header |-> header,
                         processed |-> content]
             /\ lastExportName' = fileBaseName(dest)
             /\ nextFile' = nextFile + 1
             /\ UNCHANGED <<pc, err>>
  /\ UNCHANGED <<cfg, registry, op, out, pending, anyOut, lost, fs0, cfg0,
                 dirs0, prev, nOps, exit,
                 nextHook, results, requested, kept>>

\* the index update of installHook: append the line unless the text has it
AppendExport(f, indexPath, name) ==
  LET exportLine == <<ExportStmt(name), NL>>
  IN IF Exists(f, indexPath)
       THEN IF Includes(f[indexPath], exportLine) THEN f
            ELSE WriteFile(f, indexPath, f[indexPath] \o exportLine)
       ELSE WriteFile(f, indexPath, exportLine)

\* mutant: the index is written in a dry run too
ShouldWriteIndex_IgnoresDry(addIndex, name, dry) == addIndex /\ name # <<>>

\* mutant: the index is written whatever addIndex says
ShouldWriteIndex_IgnoresAddIndex(addIndex, name, dry) == name # <<>> /\ ~dry

\* if (addIndex && lastExportName) { ... if (options?.dry) log else write }
ShouldWriteIndex(addIndex, name, dry) == addIndex /\ name # <<>> /\ ~dry

\* installHook after the loop: the re-export index
InstallIndex ==
  /\ pc = "files"
  /\ nextFile > Len(Meta.files)
  /\ IF ShouldWriteIndex(op.addIndex, lastExportName, op.dry)
       THEN /\ fs' = AppendExport(fs, IndexTs(op.baseDir), lastExportName)
            /\ dirs' = IF Exists(fs, IndexTs(op.baseDir)) THEN dirs
                       ELSE ensureDir(dirs, op.baseDir)
       ELSE UNCHANGED <<fs, dirs>>
  /\ pc' = "done"
  /\ UNCHANGED <<cfg, registry, op, nextFile, lastExportName, err, out,
                 pending, anyOut, lost, fs0, cfg0, dirs0, last, prev, nOps, exit,
                 nextHook, results, requested, kept>>

(***************************************************************************)
(* remove                                                                  *)
(***************************************************************************)
\* positions where /^export \* from "\.\/<base>";\r?\n?/m matches
LineStarts(curr, base) ==
  {i \in 1..Len(curr) :
     curr[i] = ExportStmt(base) /\ (i = 1 \/ curr[i - 1] = NL)}

\* curr.replace(reg, ""): the regular expression has no g flag, so the first
\* match only; the newline after the statement goes with it when it is there
RemoveLine(curr, base) ==
  IF LineStarts(curr, base) = {} THEN curr
  ELSE LET i == CHOOSE x \in LineStarts(curr, base) :
                  \A y \in LineStarts(curr, base) : x <= y
       IN RemoveAt(curr, i,
                   IF i < Len(curr) /\ curr[i + 1] = NL THEN 2 ELSE 1)

PruneIndex(f, indexPath, base) ==
  IF Exists(f, indexPath) /\ LineStarts(f[indexPath], base) # {}
    THEN WriteFile(f, indexPath, RemoveLine(f[indexPath], base))
    ELSE f

\* the body of cmdRemove's loop for one file descriptor
RemoveOne(f, to, baseDir) ==
  LET dest == cwd(remapToBaseDir(to, baseDir))
      base == fileBaseName(dest)
      unlinked == IF Exists(f, dest) THEN Unlink(f, dest) ELSE f
  IN PruneIndex(PruneIndex(unlinked, IndexTs(baseDir), base),
                IndexJs(baseDir), base)

RECURSIVE RemoveFiles(_, _, _)
RemoveFiles(f, files, baseDir) ==
  IF files = <<>> THEN f
  ELSE RemoveFiles(RemoveOne(f, files[1].to, baseDir), Tail(files), baseDir)

cmdRemove(id, pathFlag, net) ==
  LET r == Lookup(id, net, "done")
      baseDir == ResolveBaseDir(pathFlag)
  IN /\ Begin(Command("remove", id, baseDir, FALSE, FALSE, FALSE, FALSE, net),
              r[1], r[2])
     /\ fs' = IF r[1] = "done"
                THEN RemoveFiles(fs, FindEntry(registry, id).meta.files, baseDir)
                ELSE fs
     /\ out' = <<>>
     /\ UNCHANGED <<dirs, cfg, registry, pending, anyOut, nextHook, results,
                    requested, kept>>

(***************************************************************************)
(* doctor, outdated                                                        *)
(***************************************************************************)
Line(t, id, local, remote) ==
  [t |-> t, id |-> id, local |-> local, remote |-> remote]

\* mutant: the check for a header that does not decode is missing
Diagnose_NoHeaderCheck(f, reg, l) ==
  IF ~Exists(f, l.file) THEN "missing file"
  ELSE LET parsed == parseLocalHookVersion(f, l.file)
       IN IF parsed.id # l.id THEN "id mismatch"
          ELSE IF ~HasEntry(reg, l.id) THEN "not in registry"
          ELSE "ok"

\* the checks of cmdDoctor's loop for one inventory item
Diagnose(f, reg, l) ==
  IF ~Exists(f, l.file) THEN "missing file"
  ELSE LET parsed == parseLocalHookVersion(f, l.file)
       IN IF parsed.id = <<>> THEN "no header"
          ELSE IF parsed.id # l.id THEN "id mismatch"
          ELSE IF ~HasEntry(reg, l.id) THEN "not in registry"
          ELSE "ok"

\* mutant: the id mismatch branch does not clear `ok`
DoctorReport_MismatchKeepsOk(f, reg, locals) ==
  IF locals = <<>> THEN << Line("no installed hooks", <<>>, <<>>, <<>>) >>
  ELSE LET lines == [i \in 1..Len(locals) |->
                       Line(Diagnose(f, reg, locals[i]), locals[i].id, <<>>, <<>>)]
       IN IF \A i \in 1..Len(lines) : lines[i].t \in {"ok", "id mismatch"}
            THEN Append(lines, Line("all good", <<>>, <<>>, <<>>))
            ELSE lines

\* cmdDoctor after the fetch: the lines it prints for the inventory
DoctorReport(f, reg, locals) ==
  IF locals = <<>> THEN << Line("no installed hooks", <<>>, <<>>, <<>>) >>
  ELSE LET lines == [i \in 1..Len(locals) |->
                       Line(Diagnose(f, reg, locals[i]), locals[i].id, <<>>, <<>>)]
       IN IF \A i \in 1..Len(lines) : lines[i].t = "ok"
            THEN Append(lines, Line("all good", <<>>, <<>>, <<>>))
            ELSE lines

\* mutant: doctor deletes the inventory files whose header does not decode
cmdDoctor_DeletesNoHeader(net) ==
  LET baseDir == readConfig(cfg).baseDir
      ok == net # "registry-fails"
      locals == listLocalHooks(fs, dirs, baseDir)
      bad == {locals[i].file : i \in {j \in 1..Len(locals) :
                Diagnose(fs, registry, locals[j]) = "no header"}}
  IN /\ Begin(Command("doctor", <<>>, baseDir, FALSE, FALSE, FALSE, FALSE, net),
              IF ok THEN "done" ELSE "failed", IF ok THEN "" ELSE "Fetch")
     /\ out' = IF ok THEN DoctorReport(fs, registry, locals) ELSE <<>>
     /\ fs' = IF ok THEN [q \in DOMAIN fs \ bad |-> fs[q]] ELSE fs
     /\ UNCHANGED <<dirs, cfg, registry, pending, anyOut, nextHook, results,
                    requested, kept>>

cmdDoctor(net) ==
  LET baseDir == readConfig(cfg).baseDir
      ok == net # "registry-fails"
  IN /\ Begin(Command("doctor", <<>>, baseDir, FALSE, FALSE, FALSE, FALSE, net),
              IF ok THEN "done" ELSE "failed", IF ok THEN "" ELSE "Fetch")
     /\ out' = IF ok
                 THEN DoctorReport(fs, registry, listLocalHooks(fs, dirs, baseDir))
                 ELSE <<>>
     /\ UNCHANGED <<fs, dirs, cfg, registry, pending, anyOut, nextHook, results,
                    requested, kept>>

\* the inventory cmdOutdated works on (the command changes no file)
Locals == listLocalHooks(fs, dirs, op.baseDir)

\* cmdOutdated up to Promise.all: every item whose id the registry lists has
\* its meta.json requested at once; the others return without a request
cmdOutdated(net) ==
  LET baseDir == readConfig(cfg).baseDir
      locals == listLocalHooks(fs, dirs, baseDir)
      ok == net # "registry-fails"
  IN /\ Begin(Command("outdated", <<>>, baseDir, FALSE, FALSE, FALSE, FALSE, net),
              IF ~ok THEN "failed" ELSE IF locals = <<>> THEN "done"
              ELSE "lookups",
              IF ok THEN "" ELSE "Fetch")
     /\ out' = IF ok /\ locals = <<>>
                 THEN << Line("no installed hooks", <<>>, <<>>, <<>>) >>
                 ELSE <<>>
     /\ pending' = IF ok
                     THEN {i \in 1..Len(locals) : HasEntry(registry, locals[i].id)}
                     ELSE {}
     /\ anyOut' = FALSE
     /\ UNCHANGED <<fs, dirs, cfg, registry, nextHook, results, requested, kept>>

\* meta.version ?? "0.0.0"
OrZero(v) == IF v = <<>> THEN ZeroVersion ELSE v

\* whether the callback of cmdOutdated reports item l
IsOutdated(f, reg, l) ==
  cmpSemver(OrZero(FindEntry(reg, l.id).meta.version),
            OrZero(parseLocalHookVersion(f, l.file).version)) > 0

\* the meta.json request of item i completes (or fails: the catch is empty)
OutdatedLookup(i, fetchOk) ==
  /\ pc = "lookups"
  /\ i \in pending
  /\ pending' = pending \ {i}
  /\ lost' = IF fetchOk THEN lost ELSE lost \cup {i}
  /\ LET l == Locals[i]
     IN IF fetchOk /\ IsOutdated(fs, registry, l)
          THEN /\ anyOut' = TRUE
               /\ out' = Append(out,
                           Line("outdated", l.id,
                                OrZero(parseLocalHookVersion(fs, l.file).version),
                                OrZero(FindEntry(registry, l.id).meta.version)))
          ELSE UNCHANGED <<anyOut, out>>
  /\ UNCHANGED <<fs, dirs, cfg, registry, pc, op, nextFile, lastExportName,
                 err, fs0, cfg0, dirs0, last, prev, nOps, exit,
                 nextHook, results, requested, kept>>

\* mutant: the summary is not held back until Promise.all has settled
OutdatedFinish_NotAwaited ==
  /\ pc = "lookups"
  /\ out' = IF anyOut THEN out
            ELSE Append(out, Line("up to date", <<>>, <<>>, <<>>))
  /\ pc' = "done"
  /\ UNCHANGED <<fs, dirs, cfg, registry, op, nextFile, lastExportName, err,
                 pending, anyOut, lost, fs0, cfg0, dirs0, last, prev, nOps, exit,
                 nextHook, results, requested, kept>>

\* Promise.all has settled
OutdatedFinish ==
  /\ pc = "lookups"
  /\ pending = {}
  /\ out' = IF anyOut THEN out
            ELSE Append(out, Line("up to date", <<>>, <<>>, <<>>))
  /\ pc' = "done"
  /\ UNCHANGED <<fs, dirs, cfg, registry, op, nextFile, lastExportName, err,
                 pending, anyOut, lost, fs0, cfg0, dirs0, last, prev, nOps, exit,
                 nextHook, results, requested, kept>>

(***************************************************************************)
(* installHook as a function (preset and init call it in a loop or inside  *)
(* a try block; add and update run it step by step, see InstallFile)       *)
(***************************************************************************)
Tree(f, ds) == [fs |-> f, dirs |-> ds]

RECURSIVE WriteFiles(_, _, _, _, _, _, _)
\* the loop of installHook over the file descriptors `files`
WriteFiles(t, files, baseDir, force, strip, c, header) ==
  IF files = <<>> THEN t
  ELSE LET dest == cwd(remapToBaseDir(files[1].to, baseDir))
           content == ProcessSource(files[1].text, strip, c, dest)
       IN WriteFiles(Tree(WriteDest(t.fs, dest, force, header \o content),
                          ensureDir(t.dirs, dest.dir)),
                     Tail(files), baseDir, force, strip, c, header)

\* a non-dry installHook of a hook the registry lists, whose meta.json was
\* fetched: the first n sources are fetched and written; when n is the number
\* of files the index is updated, otherwise the next fetch failed
installHook(t, reg, c, id, baseDir, addIndex, force, strip, n) ==
  LET meta == FindEntry(reg, id).meta
      written == WriteFiles(t, SubSeq(meta.files, 1, n), baseDir, force,
                            strip, c, HeaderLine(meta, reg))
      lastName == IF meta.files = <<>> THEN <<>>
                  ELSE fileBaseName(
                         cwd(remapToBaseDir(meta.files[Len(meta.files)].to,
                                            baseDir)))
  IN IF n < Len(meta.files) \/ ~ShouldWriteIndex(addIndex, lastName, FALSE)
       THEN written
       ELSE Tree(AppendExport(written.fs, IndexTs(baseDir), lastName),
                 IF Exists(written.fs, IndexTs(baseDir)) THEN written.dirs
                 ELSE ensureDir(written.dirs, baseDir))

\* how an installHook called from preset or init ends: n sources written,
\* then the command position and the error
Ended(t, p, e) == [tree |-> t, pc |-> p, err |-> e]

(***************************************************************************)
(* list, info, readme                                                      *)
(***************************************************************************)
cmdList(net) ==
  LET ok == net # "registry-fails"
  IN /\ Begin(Command("list", <<>>, <<>>, FALSE, FALSE, FALSE, FALSE, net),
              IF ok THEN "done" ELSE "failed", IF ok THEN "" ELSE "Fetch")
     /\ out' = IF ok
                 THEN [i \in 1..Len(registry.hooks) |->
                         Line("hook", registry.hooks[i].id, <<>>, <<>>)]
                 ELSE <<>>
     /\ UNCHANGED <<fs, dirs, cfg, registry, pending, anyOut, nextHook, results,
                    requested, kept>>

cmdInfo(id, net) ==
  LET r == Lookup(id, net, "done")
  IN /\ Begin(Command("info", id, <<>>, FALSE, FALSE, FALSE, FALSE, net),
              r[1], r[2])
     /\ out' = IF r[1] = "done"
                 THEN << Line("info", id, <<>>,
                              FindEntry(registry, id).meta.version) >>
                 ELSE <<>>
     /\ UNCHANGED <<fs, dirs, cfg, registry, pending, anyOut, nextHook, results,
                    requested, kept>>

\* one section of HOOKS.md: the hook and the install root it is imported from
DocSection(id, baseDir) == Tok("DOC", id, baseDir, "")

HooksMd == Path(<<>>, <<"HOOKS", "md">>)

\* cmdReadme: the meta.json of every inventory item the registry lists is
\* fetched, one after the other, then HOOKS.md is written
cmdReadme(net) ==
  LET baseDir == readConfig(cfg).baseDir
      locals == listLocalHooks(fs, dirs, baseDir)
      known == SelectSeq(locals, LAMBDA l : HasEntry(registry, l.id))
      ok == /\ net # "registry-fails"
            /\ ~(net = "meta-fails" /\ known # <<>>)
  IN /\ Begin(Command("readme", <<>>, baseDir, FALSE, FALSE, FALSE, FALSE, net),
              IF ok THEN "done" ELSE "failed", IF ok THEN "" ELSE "Fetch")
     /\ fs' = IF ok /\ locals # <<>>
                THEN WriteFile(fs, HooksMd,
                               [i \in 1..Len(known) |->
                                  DocSection(known[i].id, baseDir)])
                ELSE fs
     /\ out' = IF ok /\ locals = <<>>
                 THEN << Line("no hooks to document", <<>>, <<>>, <<>>) >>
                 ELSE <<>>
     /\ UNCHANGED <<dirs, cfg, registry, pending, anyOut, nextHook, results,
                    requested, kept>>

(***************************************************************************)
(* preset, init                                                            *)
(***************************************************************************)
\* what the fetches of one installHook call do: as Networks, or the fetch of
\* a source file fails after some sources were written
FetchOutcomes == Networks \cup {"file-fails"}

\* the number of sources written before the failing one
StopsAfter == {0, 1}

\* installHook(id, ..) called from preset or init under the outcome net
RunInstall(t, reg, c, id, baseDir, addIndex, force, strip, net, n) ==
  LET r == Lookup(id, net, "files")
  IN IF r[1] = "failed" THEN Ended(t, "failed", r[2])
     ELSE LET files == FindEntry(reg, id).meta.files
              k == IF net = "file-fails" /\ n < Len(files) THEN n
                   ELSE Len(files)
          IN Ended(installHook(t, reg, c, id, baseDir, addIndex, force,
                               strip, k),
                   IF k < Len(files) THEN "failed" ELSE "done",
                   IF k < Len(files) THEN "Fetch" ELSE "")

PresetNames == {"essentials", "other"}

\* the hooks of the preset "essentials" (five in the source, the two hooks
\* of the model's registry here)
Essentials == <<IdA, IdB>>

RECURSIVE RunPreset(_, _, _, _, _, _)
\* the loop of cmdPreset; the installHook call number failAt meets the
\* outcome net (0: none does), the others succeed
RunPreset(t, ids, c, failAt, net, n) ==
  IF ids = <<>> THEN Ended(t, "done", "")
  ELSE LET r == RunInstall(t, registry, c, ids[1], c.baseDir, c.addIndex,
                           TRUE, c.stripUseClient,
                           IF failAt = 1 THEN net ELSE "ok", n)
       IN IF r.pc = "failed" THEN r
          ELSE RunPreset(r.tree, Tail(ids), c, failAt - 1, net, n)

\* the inputs of cmdPreset that differ in what the command meets: no call
\* fails (failAt = 0, net = "ok") or one call meets a failure; n counts only
\* when a source fetch fails
PresetInput(name, failAt, net, n) ==
  /\ (failAt = 0) = (net = "ok")
  /\ name # "essentials" => failAt = 0
  /\ net # "file-fails" => n = 0

cmdPreset(name, failAt, net, n) ==
  LET c == readConfig(cfg)
      r == IF name = "essentials"
             THEN RunPreset(Tree(fs, dirs), Essentials, c, failAt, net, n)
             ELSE Ended(Tree(fs, dirs), "done", "")
  IN /\ Begin(Command("preset", <<>>, c.baseDir, c.addIndex, FALSE, TRUE,
                      c.stripUseClient, net), r.pc, r.err)
     /\ fs' = r.tree.fs
     /\ dirs' = r.tree.dirs
     /\ out' = IF name = "essentials" THEN <<>>
               ELSE << Line("unknown preset", <<>>, <<>>, <<>>) >>
     /\ UNCHANGED <<cfg, registry, pending, anyOut, nextHook, results,
                    requested, kept>>

Answers(tty, baseDir, addIndex, strip, useAlias, aliasPrefix, aliasTarget) ==
  [tty |-> tty, baseDir |-> baseDir, addIndex |-> addIndex,
   stripUseClient |-> strip, useAlias |-> useAlias,
   aliasPrefix |-> aliasPrefix, aliasTarget |-> aliasTarget]

\* the answers of cmdInit: the defaults without a terminal (or with --yes),
\* answers given at the terminal, with an alias rule whose prefix is left
\* empty, and an answer without a path
InitAnswers ==
  { Answers(FALSE, DefaultBaseDir, TRUE, FALSE, FALSE, <<>>, <<"src">>),
    Answers(TRUE, AltDir, FALSE, TRUE, TRUE, <<>>, <<"src">>),
    Answers(TRUE, <<>>, TRUE, FALSE, FALSE, <<>>, <<"src">>) }

\* the ProjectConfig cmdInit builds from the answers
InitCfg(a) ==
  Config(a.baseDir, a.addIndex, a.stripUseClient,
         IF a.useAlias
           THEN (IF a.aliasPrefix = <<>> THEN <<"@">> ELSE a.aliasPrefix)
           ELSE <<>>,
         IF a.useAlias
           THEN (IF a.aliasTarget = <<>> THEN <<"src">> ELSE a.aliasTarget)
           ELSE <<>>)

\* the choices of "Install a sample hook now?"; <<>> is Skip
SamplePicks(reg) == {<<>>} \cup {reg.hooks[i].id : i \in 1..Len(reg.hooks)}

\* the inputs of cmdInit that differ in what the command meets: only at a
\* terminal, with a path given and a hook picked, is anything fetched
InitInput(a, pick, net, n) ==
  /\ (~a.tty \/ a.baseDir = <<>>) => pick = <<>>
  /\ pick = <<>> => net = "ok"
  /\ net # "file-fails" => n = 0

\* cmdInit: the configuration is written, then at a terminal a sample hook
\* may be installed; whatever that install throws is caught and logged
cmdInit(a, pick, net, n) ==
  LET canceled == a.tty /\ a.baseDir = <<>>
      saved == Tree(fs, ensureDir(dirs, ResolveSegs(<<>>, a.baseDir)))
      sample == IF a.tty /\ pick # <<>>
                  THEN RunInstall(saved, registry, InitCfg(a), pick, a.baseDir,
                                  a.addIndex, FALSE, a.stripUseClient, net, n)
                  ELSE Ended(saved, "done", "")
  IN /\ Begin(Command("init", pick, a.baseDir, a.addIndex, FALSE, FALSE,
                      a.stripUseClient, net), "done", "")
     /\ IF canceled
          THEN /\ UNCHANGED <<fs, dirs, cfg>>
               /\ out' = << Line("canceled", <<>>, <<>>, <<>>) >>
          ELSE /\ cfg' = InitCfg(a)
               /\ fs' = sample.tree.fs
               /\ dirs' = sample.tree.dirs
               /\ out' = IF sample.pc = "failed"
                           THEN << Line("skip sample install", pick, <<>>, <<>>) >>
                           ELSE <<>>
     /\ UNCHANGED <<registry, pending, anyOut, nextHook, results, requested, kept>>

(***************************************************************************)
(* search                                                                  *)
(***************************************************************************)
\* const limit = 8
limit == 8

\* the hook ids in the order of localeCompare
IdOrder ==
  << <<"use-a">>, <<"use-b">>, <<"use-c">>, <<"use-d">>, <<"use-e">>,
     <<"use-f">>, <<"use-g">>, <<"use-h">>, <<"use-i">>, <<"use-j">>,
     <<"use-k">>, <<"use-l">> >>

Rank(id) == CHOOSE k \in 1..Len(IdOrder) : IdOrder[k] = id

\* meta.description, as words: use-i is described by naming use-a
Description(id) ==
  IF id = <<"use-i">> THEN <<"like", "use-a">> ELSE <<>>

\* the words of [h.id, meta.name, meta.description, ...tags].join(" ")
Hay(h) == h.id \o Description(h.id)

\* the queries typed: a hook id, a phrase of a description, no match
Queries == { <<"use-a">>, <<"like", "use-a">>, <<"none">> }

\* hay.includes(q) ? 2 : words.some(w => hay.includes(w)) ? 1 : 0, with
\* includes taken on whole words
Score(q, h) ==
  IF Includes(Hay(h), q) THEN 2
  ELSE IF \E i \in 1..Len(q), j \in 1..Len(Hay(h)) : q[i] = Hay(h)[j] THEN 1
  ELSE 0

\* mutant: one worker per hook
Workers_OnePerHook(n) == n

\* Math.min(limit, hooks.length)
Workers(n) == IF n < limit THEN n ELSE limit

\* cmdSearch up to Promise.all: each of the workers takes hooks[i++] and
\* requests its meta.json before any request completes
cmdSearch(q, net) ==
  LET ok == net # "registry-fails"
      started == Workers(Len(registry.hooks))
  IN /\ Begin(Command("search", q, <<>>, FALSE, FALSE, FALSE, FALSE, net),
              IF ok THEN "searching" ELSE "failed", IF ok THEN "" ELSE "Fetch")
     /\ pending' = IF ok THEN 1..started ELSE {}
     /\ nextHook' = IF ok THEN started + 1 ELSE nextHook
     /\ results' = <<>>
     /\ requested' = IF ok THEN [k \in 1..started |-> k] ELSE <<>>
     /\ out' = <<>>
     /\ UNCHANGED <<fs, dirs, cfg, registry, anyOut, kept>>

\* mutant: a request that failed is sent once more before the hook is skipped
SearchFetchDone_Retries(h, fetchOk) ==
  /\ pc = "searching"
  /\ h \in pending
  /\ LET score == Score(op.id, registry.hooks[h])
     IN results' = IF fetchOk /\ score > 0
                     THEN Append(results,
                                 [id |-> registry.hooks[h].id, score |-> score])
                     ELSE results
  /\ lost' = IF fetchOk THEN lost ELSE lost \cup {h}
  /\ IF ~fetchOk /\ h \notin lost
       THEN /\ requested' = Append(requested, h)
            /\ UNCHANGED <<pending, nextHook>>
       ELSE IF nextHook <= Len(registry.hooks)
         THEN /\ pending' = (pending \ {h}) \cup {nextHook}
              /\ requested' = Append(requested, nextHook)
              /\ nextHook' = nextHook + 1
         ELSE /\ pending' = pending \ {h}
              /\ UNCHANGED <<nextHook, requested>>
  /\ UNCHANGED <<fs, dirs, cfg, registry, pc, op, nextFile, lastExportName,
                 err, out, anyOut, fs0, cfg0, dirs0, last, prev, nOps, exit,
                 kept>>

\* the request for hook h completes or fails (the catch skips the hook), and
\* the worker calls next(): it takes hooks[i++] when there is one
SearchFetchDone(h, fetchOk) ==
  /\ pc = "searching"
  /\ h \in pending
  /\ LET score == Score(op.id, registry.hooks[h])
     IN results' = IF fetchOk /\ score > 0
                     THEN Append(results,
                                 [id |-> registry.hooks[h].id, score |-> score])
                     ELSE results
  /\ lost' = IF fetchOk THEN lost ELSE lost \cup {h}
  /\ IF nextHook <= Len(registry.hooks)
       THEN /\ pending' = (pending \ {h}) \cup {nextHook}
            /\ requested' = Append(requested, nextHook)
            /\ nextHook' = nextHook + 1
       ELSE /\ pending' = pending \ {h}
            /\ UNCHANGED <<nextHook, requested>>
  /\ UNCHANGED <<fs, dirs, cfg, registry, pc, op, nextFile, lastExportName,
                 err, out, anyOut, fs0, cfg0, dirs0, last, prev, nOps, exit,
                 kept>>

\* b.score - a.score || a.id.localeCompare(b.id)
Before(a, b) ==
  a.score > b.score \/ (a.score = b.score /\ Rank(a.id) < Rank(b.id))

RECURSIVE Sorted(_)
\* results.sort(..) of a set of results
Sorted(S) ==
  IF S = {} THEN <<>>
  ELSE LET x == CHOOSE y \in S : \A z \in S \ {y} : Before(y, z)
       IN <<x>> \o Sorted(S \ {x})

\* every worker has returned: the results are sorted and printed
SearchFinish ==
  /\ pc = "searching"
  /\ pending = {}
  /\ out' = IF results = <<>>
              THEN << Line("no matches", <<>>, <<>>, <<>>) >>
              ELSE LET sorted == Sorted({results[i] : i \in 1..Len(results)})
                   IN [i \in 1..Len(sorted) |->
                         Line("match", sorted[i].id, <<>>, <<>>)]
  /\ pc' = "done"
  /\ UNCHANGED <<fs, dirs, cfg, registry, op, nextFile, lastExportName, err,
                 pending, anyOut, lost, fs0, cfg0, dirs0, last, prev, nOps, exit,
                 nextHook, results, requested, kept>>

(***************************************************************************)
(* migrate                                                                 *)
(***************************************************************************)
\* the values of --path= given to migrate: the default root, another root,
\* a root below the default root, the configured root written with a leading
\* "./", and the empty value
MigrateTargets(c) ==
  {DefaultBaseDir, AltDir, SubDir, <<".">> \o readConfig(c).baseDir, <<>>}

Reverse(s) == [i \in 1..Len(s) |-> s[Len(s) + 1 - i]]

\* p.endsWith(".ts") || p.endsWith(".js")
IsSourceFile(p) == p.name # <<>> /\ p.name[Len(p.name)] \in {"ts", "js"}

RECURSIVE CopyAll(_, _, _)
\* the copy loop of cmdMigrate: each file goes to <newRoot>/<basename>, in
\* the order of the walk; copying a file onto itself changes nothing
CopyAll(f, files, newAbs) ==
  IF files = <<>> THEN f
  ELSE LET target == Path(newAbs, files[1].name)
       IN CopyAll(IF target = files[1] THEN f
                  ELSE WriteFile(f, target, f[files[1]]),
                  Tail(files), newAbs)

\* mutant: the two roots are compared as they are written
SameRoot_Unresolved(a, b) == a = b

\* path.resolve(oldBase) === path.resolve(newBaseDir)
SameRoot(a, b) == ResolveSegs(<<>>, a) = ResolveSegs(<<>>, b)

\* mutant: the alias rule is not carried over
nextCfg_DropsAlias(c, newBaseDir) ==
  Config(newBaseDir, c.addIndex, c.stripUseClient, <<>>, <<>>)

\* nextCfg of cmdMigrate
nextCfg(c, newBaseDir) ==
  Config(newBaseDir, c.addIndex, c.stripUseClient, c.aliasPrefix,
         c.aliasTarget)

\* cmdMigrate(newBaseDir).  readdir fixes no order: the walk is taken in one
\* enumeration or in its reverse, so that of two files with one base name
\* either can be the one copied last
cmdMigrate(newBaseDir, reversed) ==
  LET c == readConfig(cfg)
      newAbs == ResolveSegs(<<>>, newBaseDir)
      ds == ensureDir(dirs, newAbs)
      found == IF ResolveSegs(<<>>, c.baseDir) \in ds
                 THEN SelectSeq(walk(fs, ResolveSegs(<<>>, c.baseDir)),
                                IsSourceFile)
                 ELSE <<>>
      files == IF reversed THEN Reverse(found) ELSE found
  IN /\ Begin(Command("migrate", <<>>, newBaseDir, FALSE, FALSE, FALSE, FALSE,
                      "ok"),
              IF newBaseDir = <<>> THEN "failed" ELSE "done",
              IF newBaseDir = <<>> THEN "Usage" ELSE "")
     /\ IF newBaseDir = <<>> \/ SameRoot(c.baseDir, newBaseDir)
          THEN UNCHANGED <<fs, dirs, cfg>>
          ELSE /\ fs' = CopyAll(fs, files, newAbs)
               /\ dirs' = ds
               /\ cfg' = nextCfg(c, newBaseDir)
     /\ out' = <<>>
     /\ UNCHANGED <<registry, pending, anyOut, nextHook, results, requested, kept>>

\* the command lines of add, update and remove that differ in what the command
\* meets: a command that stops before it reads its flags (the registry or the
\* meta.json is not fetched, the hook is unknown) is run without flags, an
\* unknown hook is looked up with the network up, and a dry run, which writes
\* nothing, is run without --force
FlagsInput(id, pathFlag, noIndex, dry, force, net) ==
  /\ Lookup(id, net, "files")[1] = "failed" =>
       pathFlag = <<>> /\ ~noIndex /\ ~dry /\ ~force
  /\ ~HasEntry(registry, id) => net # "meta-fails"
  /\ dry => ~force

\* main dispatches a command and the command runs, step by step
RunCommand ==
  \/ \E id \in HookIds, pathFlag \in PathFlags, noIndex \in BOOLEAN,
        net \in Networks :
          /\ FlagsInput(id, pathFlag, noIndex, FALSE, FALSE, net)
          /\ cmdAdd(id, pathFlag, noIndex, net)
  \/ \E id \in HookIds, pathFlag \in PathFlags, dry \in BOOLEAN,
        force \in BOOLEAN, net \in Networks :
          /\ FlagsInput(id, pathFlag, FALSE, dry, force, net)
          /\ cmdUpdate(id, pathFlag, dry, force, net)
  \/ \E outcome \in FileOutcomes : InstallFile(outcome)
  \/ InstallIndex
  \/ \E id \in HookIds, pathFlag \in PathFlags, net \in Networks :
        /\ FlagsInput(id, pathFlag, FALSE, FALSE, FALSE, net)
        /\ cmdRemove(id, pathFlag, net)
  \/ \E net \in Networks : cmdDoctor(net)
  \/ \E net \in Networks : cmdOutdated(net)
  \/ \E i \in pending, fetchOk \in BOOLEAN : OutdatedLookup(i, fetchOk)
  \/ OutdatedFinish
  \/ \E newBaseDir \in MigrateTargets(cfg), reversed \in BOOLEAN :
        cmdMigrate(newBaseDir, reversed)
  \/ \E net \in Networks : cmdList(net)
  \/ \E id \in HookIds, net \in Networks : cmdInfo(id, net)
  \/ \E net \in Networks : cmdReadme(net)
  \/ \E q \in Queries, net \in {"ok", "registry-fails"} : cmdSearch(q, net)
  \/ \E h \in pending, fetchOk \in BOOLEAN : SearchFetchDone(h, fetchOk)
  \/ SearchFinish

Next == RunCommand \/ Exit

Spec == Init /\ [][Next]_vars

\* the two subcommands that call installHook in a loop of their own
RunPresetOrInit ==
  \/ \E name \in PresetNames, failAt \in 0..Len(Essentials),
        net \in FetchOutcomes, n \in StopsAfter :
          /\ PresetInput(name, failAt, net, n)
          /\ cmdPreset(name, failAt, net, n)
  \/ \E a \in InitAnswers, pick \in SamplePicks(registry),
        net \in FetchOutcomes, n \in StopsAfter :
          /\ InitInput(a, pick, net, n)
          /\ cmdInit(a, pick, net, n)

\* every subcommand of main: those of Next, preset and init
NextAll == Next \/ RunPresetOrInit

\* the starting states of Init under the registry that carries a version and
\* a version for every hook; what installHook writes for a registry without
\* them is explored under Spec
InitAll == Init /\ registry.version = "7"

SpecAll == InitAll /\ [][NextAll]_vars

(***************************************************************************)
(* Registries and projects larger than the fan-out of search                *)
(***************************************************************************)
MaxHooks == 9

\* the positions of the hooks whose registry version is ahead of the
\* installed one
Newer == {1, 9}

\* the positions of the hooks whose meta.json request may fail
Flaky == {2, 9}

\* a registry listing the first n hooks of IdOrder, one file each
BigRegistry(n) ==
  [version |-> "7",
   hooks |-> [k \in 1..n |->
                Entry(IdOrder[k],
                      IF k \in Newer THEN <<1, 1, 0>> ELSE <<1, 0, 0>>,
                      << FileDesc(Path(<<"hooks">>, IdOrder[k] \o <<"ts">>),
                                  <<OtherText, NL>>) >>)]]

\* a project without index in which the first n hooks are installed at 1.0.0
BigProject(n) ==
  [fs |-> Files([k \in 1..n |->
                   << InRoot(IdOrder[k] \o <<"ts">>),
                      Installed(IdOrder[k], <<1, 0, 0>>, "7", <<OtherText, NL>>) >>]),
   dirs |-> Ancestors(DefaultBaseDir),
   cfg |-> Config(DefaultBaseDir, FALSE, FALSE, <<>>, <<>>)]

FanOutInit ==
  /\ \E n \in 0..MaxHooks :
       /\ registry = BigRegistry(n)
       /\ fs = BigProject(n).fs
       /\ dirs = BigProject(n).dirs
       /\ cfg = BigProject(n).cfg
       /\ fs0 = BigProject(n).fs
       /\ dirs0 = BigProject(n).dirs
       /\ cfg0 = BigProject(n).cfg
  /\ pc = "idle"
  /\ op = NoCommand
  /\ nextFile = 1
  /\ lastExportName = <<>>
  /\ err = ""
  /\ out = <<>>
  /\ pending = {}
  /\ anyOut = FALSE
  /\ lost = {}
  /\ last = NoWrite
  /\ prev = NoInstall
  /\ nOps = 0
  /\ nextHook = 1
  /\ results = <<>>
  /\ exit = Running
  /\ requested = <<>>
  /\ kept = {}

\* search and outdated, the two commands that fetch concurrently
FanOutNext ==
  \/ \E q \in Queries, net \in {"ok", "registry-fails"} : cmdSearch(q, net)
  \/ \E h \in pending, fetchOk \in BOOLEAN :
        (fetchOk \/ h \in Flaky) /\ SearchFetchDone(h, fetchOk)
  \/ SearchFinish
  \/ \E net \in {"ok", "registry-fails"} : cmdOutdated(net)
  \/ \E i \in pending, fetchOk \in BOOLEAN :
        (fetchOk \/ i \in Flaky) /\ OutdatedLookup(i, fetchOk)
  \/ OutdatedFinish
  \/ Exit

FanOutSpec == FanOutInit /\ [][FanOutNext]_vars

\* the continuation of Promise.all runs once its promises are settled: the
\* event loop does not leave a resolved await waiting
FanOutFairSpec == FanOutSpec /\ WF_vars(SearchFinish)

(***************************************************************************)
(* Properties                                                              *)
(***************************************************************************)
IsInstall(c) == c.kind \in {"add", "update"}

\* the destinations of hook id under install root baseDir
Dests(reg, id, baseDir) ==
  LET files == FindEntry(reg, id).meta.files
  IN {cwd(remapToBaseDir(files[i].to, baseDir)) : i \in 1..Len(files)}

\* the text holds the statement export * from "./<base>";
HasExportFor(text, base) == \E i \in 1..Len(text) : text[i] = ExportStmt(base)

\* the lines of the text that are exactly export * from "./<base>";
ExactLines(text, base) ==
  LET lines == SplitNL(text, <<>>)
  IN {i \in 1..Len(lines) : lines[i] = <<ExportStmt(base)>>}

\* a successful non-dry install of a hook was followed by a successful remove
\* of the same hook in the same install root
RemovedAfterInstall ==
  /\ op.kind = "remove" /\ pc = "done"
  /\ prev.installed /\ prev.id = op.id /\ prev.baseDir = op.baseDir

\* C1: after a successful non-dry install followed by a successful remove of
\* the same hook in the same install root, none of the hook's destination
\* files exists and neither index.ts nor index.js holds a re-export of one of
\* the hook's file base names.
C1_InstallRemoveLeavesNothing ==
  RemovedAfterInstall =>
    \A d \in Dests(registry, op.id, op.baseDir) :
      /\ ~Exists(fs, d)
      /\ \A ix \in {IndexTs(op.baseDir), IndexJs(op.baseDir)} :
           Exists(fs, ix) => ~HasExportFor(fs[ix], fileBaseName(d))

\* C2: when a destination that existed is overwritten without force, the
\* file <dest>.bak exists and holds what the destination held just before.
C2_BackupHoldsPriorContent ==
  (last.valid /\ last.existed /\ ~last.force) =>
    /\ Exists(fs, BakPath(last.dest))
    /\ fs[BakPath(last.dest)] = last.before

C2_Witness ==
  /\ last.valid /\ last.existed /\ ~last.force
  /\ fs[last.dest] # last.before

BakFiles(f) == [p \in {q \in DOMAIN f : IsBak(q)} |-> f[p]]

\* C3: an install or update that runs with force creates or changes no .bak
\* file: the backup files and their contents are those of the command's start.
C3_ForceLeavesBackupsAlone ==
  (IsInstall(op) /\ op.force) => BakFiles(fs) = BakFiles(fs0)

C3_Witness ==
  /\ IsInstall(op) /\ op.force /\ pc = "done"
  /\ last.valid /\ last.existed /\ fs[last.dest] # last.before

\* C4: with index maintenance enabled, after a successful non-dry install or
\* update the index.ts holds exactly one line export * from "./<name>"; for
\* the base name of the hook's last file.
C4_ExactlyOneIndexLine ==
  (IsInstall(op) /\ pc = "done" /\ ~op.dry /\ op.addIndex
     /\ lastExportName # <<>>) =>
    /\ Exists(fs, IndexTs(op.baseDir))
    /\ Cardinality(ExactLines(fs[IndexTs(op.baseDir)], lastExportName)) = 1

\* C5: after a successful non-dry install every destination file exists, its
\* first line is the header naming the metadata's id and version (0.0.0 when
\* the metadata has none) and the registry's version ("0" when it has none),
\* and the rest is the processed source text.
C5_InstalledFileHasHeaderAndText ==
  (IsInstall(op) /\ pc = "done" /\ ~op.dry) =>
    \A i \in 1..Len(Meta.files) :
      LET dest == cwd(remapToBaseDir(Meta.files[i].to, op.baseDir))
      IN /\ Exists(fs, dest)
         /\ Len(fs[dest]) >= 2
         /\ fs[dest][1].k = "H"
         /\ fs[dest][1].n = Meta.id
         /\ fs[dest][1].v = OrZero(Meta.version)
         /\ fs[dest][1].r = (IF registry.version = "" THEN "0" ELSE registry.version)
         /\ fs[dest][2] = NL
         /\ Drop(fs[dest], 2) =
              ProcessSource(Meta.files[i].text, op.strip, readConfig(cfg), dest)

C5_Witness ==
  /\ IsInstall(op) /\ pc = "done" /\ ~op.dry
  /\ Len(Meta.files) > 1 /\ Meta.version # <<>>
  /\ op.strip /\ op.baseDir = AltDir

\* C6: install, update and remove of an id the registry does not list end
\* with the error "Unknown hook" (once the registry has been fetched) and
\* change no file, no directory and not the configuration.
C6_UnknownHookChangesNothing ==
  (op.kind \in {"add", "update", "remove"} /\ ~HasEntry(registry, op.id)) =>
    /\ pc = "failed"
    /\ op.net # "registry-fails" => err = "Unknown hook"
    /\ fs = fs0 /\ dirs = dirs0 /\ cfg = cfg0

C6_Witness ==
  /\ op.kind = "remove" /\ ~HasEntry(registry, op.id)
  /\ err = "Unknown hook"
  /\ Exists(fs, Path(op.baseDir, op.id \o <<"ts">>))

FileThere(l) == Exists(fs, l.file)
HeaderDecodes(l) == parseLocalHookVersion(fs, l.file) # NoParse
IdsAgree(l) == parseLocalHookVersion(fs, l.file).id = l.id
Listed(l) == HasEntry(registry, l.id)

FirstFailing(l) ==
  CASE ~FileThere(l) -> "missing file"
    [] FileThere(l) /\ ~HeaderDecodes(l) -> "no header"
    [] FileThere(l) /\ HeaderDecodes(l) /\ ~IdsAgree(l) -> "id mismatch"
    [] FileThere(l) /\ HeaderDecodes(l) /\ IdsAgree(l) /\ ~Listed(l) ->
         "not in registry"
    [] OTHER -> "ok"

DoctorDone == op.kind = "doctor" /\ pc = "done"

\* C8: for every inventory item the doctor prints exactly one diagnosis, the
\* first that applies of: missing file, no header, id mismatch, not in
\* registry, else ok.
C8_DoctorFirstFailingCheck ==
  (DoctorDone /\ Locals # <<>>) =>
    /\ Len(out) \in {Len(Locals), Len(Locals) + 1}
    /\ \A i \in 1..Len(Locals) :
         /\ out[i].id = Locals[i].id
         /\ out[i].t = FirstFailing(Locals[i])
    /\ Len(out) = Len(Locals) + 1 => out[Len(out)].t = "all good"

C8_Witness ==
  /\ DoctorDone
  /\ \E i, j \in 1..Len(Locals) :
       /\ out[i].t = "id mismatch"
       /\ out[j].t = "missing file"
  /\ \E i \in 1..Len(Locals) : out[i].t = "ok"

AllGoodPrinted == \E i \in 1..Len(out) : out[i].t = "all good"

AllPass ==
  \A i \in 1..Len(Locals) :
    LET l == Locals[i]
    IN FileThere(l) /\ HeaderDecodes(l) /\ IdsAgree(l) /\ Listed(l)

\* C9 as stated: the doctor reports "all good" if and only if every
\* inventory item passes all four checks.
C9_AllGoodIffAllPass == DoctorDone => (AllGoodPrinted <=> AllPass)

\* C9 (amended): when the inventory is not empty the doctor reports "all
\* good" if and only if every item passes all four checks; on an empty
\* inventory it prints "No installed hooks found." and not "all good".
C9_AllGoodIffAllPassNonEmpty ==
  DoctorDone =>
    IF Locals = <<>>
      THEN out = << Line("no installed hooks", <<>>, <<>>, <<>>) >>
      ELSE AllGoodPrinted <=> AllPass

C9_Witness ==
  /\ DoctorDone /\ ~AllGoodPrinted
  /\ \E i \in 1..Len(out) : out[i].t = "id mismatch"
  /\ \A i \in 1..Len(out) : out[i].t \in {"ok", "id mismatch"}

OutdatedDone == op.kind = "outdated" /\ pc = "done"

Reported == {out[i].id : i \in {j \in 1..Len(out) : out[j].t = "outdated"}}

\* the items that are behind the registry
Behind ==
  {Locals[i].id : i \in {j \in 1..Len(Locals) :
     /\ HasEntry(registry, Locals[j].id)
     /\ cmpSemver(OrZero(FindEntry(registry, Locals[j].id).meta.version),
                  IF HeaderDecodes(Locals[j])
                    THEN parseLocalHookVersion(fs, Locals[j].file).version
                    ELSE ZeroVersion) > 0}}

\* C10: outdated reports an inventory item if and only if the registry lists
\* its id and the remote version is strictly greater than the version of the
\* local header (0.0.0 when the header does not decode).
C10_ReportedIffBehind == OutdatedDone => Reported = Behind

\* what does hold: the reported items are behind, and those that are behind
\* and not reported are the ones whose lookup failed
C10_ReportedIffBehindAndFetched ==
  OutdatedDone =>
    /\ Reported \subseteq Behind
    /\ \A i \in 1..Len(Locals) :
         (Locals[i].id \in Behind /\ i \notin lost) => Locals[i].id \in Reported

(***************************************************************************)
(* migrate                                                                 *)
(***************************************************************************)
OldRoot == ResolveSegs(<<>>, readConfig(cfg0).baseDir)

NewRoot == ResolveSegs(<<>>, op.baseDir)

\* the files below the old root when the command started
OldFiles == {p \in DOMAIN fs0 : IsPrefix(OldRoot, p.dir)}

\* a migrate to a different root has completed
MigrateDone ==
  /\ op.kind = "migrate" /\ pc = "done"
  /\ NewRoot # OldRoot

\* a migrate to the root already configured has ended
MigrateSameRoot ==
  /\ op.kind = "migrate" /\ pc \in Terminal /\ op.baseDir # <<>>
  /\ NewRoot = OldRoot

\* C15: after a successful migrate to a different root, for every .ts or .js
\* file the walk of the old root finds, the new root holds a file with the
\* same base name and the same content.
C15_MigrateCopiesEveryFile ==
  MigrateDone =>
    \A p \in OldFiles :
      IsSourceFile(p) =>
        /\ Exists(fs, Path(NewRoot, p.name))
        /\ fs[Path(NewRoot, p.name)] = fs0[p]

\* C16: migrate neither deletes nor modifies a file that was below the old
\* root before the command, whatever the new root is.
C16_MigrateLeavesOldRoot ==
  op.kind = "migrate" /\ pc \in Terminal =>
    \A p \in OldFiles : Exists(fs, p) /\ fs[p] = fs0[p]

\* the commands that take their install root from the configuration alone
RootFromConfig == {"doctor", "outdated", "readme", "preset"}

\* the commands whose --path flag overrides the configured root
RootFromFlag == {"add", "update", "remove"}

\* C17: after a successful migrate to a different root the configuration
\* file holds the new root as baseDir and the former addIndex,
\* stripUseClient, aliasPrefix and aliasTarget; the next command takes the
\* new root as install root (unless its --path flag names another).
C17_MigratePersistsNewRoot ==
  /\ MigrateDone =>
       /\ cfg.present
       /\ cfg.baseDir = op.baseDir
       /\ cfg.addIndex = readConfig(cfg0).addIndex
       /\ cfg.stripUseClient = readConfig(cfg0).stripUseClient
       /\ cfg.aliasPrefix = readConfig(cfg0).aliasPrefix
       /\ cfg.aliasTarget = readConfig(cfg0).aliasTarget
  /\ prev.migrated =>
       /\ readConfig(cfg0).baseDir = prev.baseDir
       /\ op.kind \in RootFromConfig => op.baseDir = prev.baseDir
       /\ op.kind \in RootFromFlag =>
            op.baseDir \in {prev.baseDir} \cup (PathFlags \ {<<>>})

\* a command that reads the root from the configuration runs after a migrate
\* of a project whose configuration had an alias rule and no index
C17_Witness ==
  /\ prev.migrated /\ op.kind = "outdated" /\ pc = "done"
  /\ cfg.aliasPrefix # <<>> /\ ~cfg.addIndex
  /\ op.baseDir = prev.baseDir /\ op.baseDir # DefaultBaseDir

\* C18: migrate to a path that resolves to the configured install root
\* creates no directory, copies no file and does not write the configuration.
C18_MigrateSameRootNoOp ==
  MigrateSameRoot => fs = fs0 /\ dirs = dirs0 /\ cfg = cfg0

\* the configured root written differently, in a project that has neither a
\* configuration file nor the root directory
C18_Witness ==
  /\ MigrateSameRoot /\ pc = "done"
  /\ op.baseDir # readConfig(cfg0).baseDir
  /\ ~cfg0.present /\ OldRoot \notin dirs0

(***************************************************************************)
(* concurrency of outdated and search                                      *)
(***************************************************************************)
OutdatedRuns == op.kind = "outdated" /\ pc \in {"lookups", "done"}

\* the lookups cmdOutdated started
Started == {i \in 1..Len(Locals) : HasEntry(registry, Locals[i].id)}

\* the items to report, given which lookups have completed and which of
\* them failed: nothing of it depends on the order of completion
ToReport ==
  {Locals[i].id : i \in {j \in Started \ (pending \cup lost) :
                           IsOutdated(fs, registry, Locals[j])}}

SummaryPrinted == \E i \in 1..Len(out) : out[i].t = "up to date"

\* C11: for every order in which the lookups of outdated complete the set of
\* reported items is the same, and "All hooks are up to date." is printed
\* exactly when the command has ended with that set empty, and only after
\* every lookup has finished.
C11_ReportIsOrderIndependent ==
  OutdatedRuns =>
    /\ Reported = ToReport
    /\ SummaryPrinted <=> (pc = "done" /\ Reported = {})
    /\ SummaryPrinted => pending = {}

\* C11 as it holds: the same, for an inventory that is not empty (with an
\* empty inventory outdated prints "No installed hooks found." instead of
\* the summary).
C11_ReportIsOrderIndependentNonEmpty ==
  OutdatedRuns /\ Locals # <<>> =>
    /\ Reported = ToReport
    /\ SummaryPrinted <=> (pc = "done" /\ Reported = {})
    /\ SummaryPrinted => pending = {}

\* more than eight lookups, one of them failed, and the two items that are
\* behind were reported against the order of the registry
C11_Witness ==
  /\ OutdatedRuns /\ pc = "done" /\ Cardinality(Started) > limit
  /\ lost # {}
  /\ Len(out) = 2
  /\ out[1].id = <<"use-i">> /\ out[2].id = <<"use-a">>

\* C12: during search at most 8 metadata fetches are in flight at every
\* moment, whatever the size of the registry and the order of completion.
C12_SearchInFlightBounded ==
  op.kind = "search" => Cardinality(pending) <= limit

\* a registry of more than eight hooks: eight requests are in flight after a
\* request failed and its worker took the next hook
C12_Witness ==
  /\ op.kind = "search" /\ pc = "searching"
  /\ Len(registry.hooks) > limit
  /\ Cardinality(pending) = limit
  /\ lost # {}

\* C13: during outdated at most 8 metadata fetches are in flight at every
\* moment, whatever the number of installed items and the order of
\* completion.
C13_OutdatedInFlightBounded ==
  op.kind = "outdated" => Cardinality(pending) <= limit

(***************************************************************************)
(* fetch failures                                                          *)
(***************************************************************************)
\* a fetch of the running command failed: the registry request, a request
\* whose failure ended the command, a lookup of search or outdated, or a
\* fetch of the sample install of init
FetchFailed ==
  \/ op.net = "registry-fails"
  \/ err = "Fetch"
  \/ lost # {}
  \/ \E i \in 1..Len(out) : out[i].t = "skip sample install"

\* C14: in every command a failed fetch of the registry, of a meta.json or
\* of a source file ends the command with an error; the command never
\* completes normally after a fetch failure.
C14_FetchFailureAborts ==
  pc \in Terminal /\ FetchFailed => pc = "failed" /\ err = "Fetch"

(***************************************************************************)
(* what the commands leave alone                                           *)
(***************************************************************************)
\* C19: the configuration file is written only by init and migrate: add,
\* update, remove, preset, search, outdated, doctor, list, info and readme
\* leave it as it was.
C19_OnlyInitAndMigrateWriteConfig ==
  op.kind \notin {"init", "migrate"} => cfg = cfg0

\* add --path=.. has installed a hook into a root that is not the configured
\* one
C19_Witness ==
  /\ op.kind = "add" /\ pc = "done"
  /\ op.baseDir # readConfig(cfg0).baseDir
  /\ fs # fs0

\* C20: outdated and doctor are read-only: no file or directory of the
\* project and not the configuration is created, modified or deleted, also
\* when inconsistencies are reported or fetches fail.
C20_OutdatedAndDoctorReadOnly ==
  op.kind \in {"outdated", "doctor"} =>
    fs = fs0 /\ dirs = dirs0 /\ cfg = cfg0

\* doctor has reported a file without header
C20_Witness ==
  /\ op.kind = "doctor" /\ pc = "done"
  /\ \E i \in 1..Len(out) : out[i].t = "no header"

(***************************************************************************)
(* the index under remove and install                                      *)
(***************************************************************************)
\* the lines of a text: the pieces the newlines end, and the piece after the
\* last newline when it is not empty
TextLines(s) ==
  LET l == SplitNL(s, <<>>)
  IN IF l[Len(l)] = <<>> THEN SubSeq(l, 1, Len(l) - 1) ELSE l

\* the base names of the destinations of hook id
Bases(reg, id, baseDir) ==
  {fileBaseName(d) : d \in Dests(reg, id, baseDir)}

\* the lines that are not exactly a re-export of one of the names
OtherLines(text, names) ==
  SelectSeq(TextLines(text), LAMBDA l : \A b \in names : l # <<ExportStmt(b)>>)

RemoveDone == op.kind = "remove" /\ pc = "done"

\* C21: a successful remove deletes from index.ts and index.js only whole
\* lines that are exactly the re-export of one of the hook's file base names:
\* every other line (a line of a hook whose name starts with the removed
\* name, a line with text after the statement) is unchanged and in the same
\* order, and no line is added.
C21_RemoveDeletesWholeLinesOnly ==
  RemoveDone =>
    \A ix \in {IndexTs(op.baseDir), IndexJs(op.baseDir)} :
      Exists(fs0, ix) =>
        LET names == Bases(registry, op.id, op.baseDir)
        IN /\ Exists(fs, ix)
           /\ OtherLines(fs[ix], names) = OtherLines(fs0[ix], names)
           /\ Len(TextLines(fs[ix])) <= Len(TextLines(fs0[ix]))

\* the index holds a line that starts with the statement of base and goes on
\* after it
HasLongerLine(text, names) ==
  \E i \in 1..Len(TextLines(text)) :
    LET l == TextLines(text)[i]
    IN Len(l) > 1 /\ \E b \in names : l[1] = ExportStmt(b)

\* C21 on indexes in which no line goes on after a statement of the hook
C21_RemoveDeletesWholeLinesOnlyPlain ==
  RemoveDone =>
    \A ix \in {IndexTs(op.baseDir), IndexJs(op.baseDir)} :
      (Exists(fs0, ix)
         /\ ~HasLongerLine(fs0[ix], Bases(registry, op.id, op.baseDir))) =>
        LET names == Bases(registry, op.id, op.baseDir)
        IN /\ Exists(fs, ix)
           /\ OtherLines(fs[ix], names) = OtherLines(fs0[ix], names)
           /\ Len(TextLines(fs[ix])) <= Len(TextLines(fs0[ix]))

InstallDone == IsInstall(op) /\ pc = "done" /\ ~op.dry

\* the index of the running install is fs0's, or fs0's followed by the
\* re-export statement of the last file and a newline (byte for byte)
IndexAppended ==
  LET ix == IndexTs(op.baseDir)
  IN /\ Exists(fs, ix)
     /\ \/ fs[ix] = fs0[ix]
        \/ fs[ix] = fs0[ix] \o <<ExportStmt(lastExportName), NL>>

\* the lines of the index are fs0's, or fs0's followed by one line that is
\* exactly the re-export of the last file
IndexLinesAppended ==
  LET ix == IndexTs(op.baseDir)
  IN \/ TextLines(fs[ix]) = TextLines(fs0[ix])
     \/ TextLines(fs[ix]) =
          Append(TextLines(fs0[ix]), <<ExportStmt(lastExportName)>>)

\* C22: a successful install only appends to the index: an index.ts that
\* existed is unchanged or is its previous content followed by exactly one
\* new line, the re-export of the last installed file's base name, and no
\* line it had is removed, changed or moved; an index.ts that did not exist
\* is created (when the index is maintained) holding exactly that line.
C22_InstallAppendsToIndex ==
  InstallDone =>
    IF Exists(fs0, IndexTs(op.baseDir))
      THEN IndexAppended /\ IndexLinesAppended
      ELSE op.addIndex =>
             /\ Exists(fs, IndexTs(op.baseDir))
             /\ fs[IndexTs(op.baseDir)] = <<ExportStmt(lastExportName), NL>>

\* the text is empty or ends with a newline
EndsWithNL(text) == text = <<>> \/ text[Len(text)] = NL

\* C22 on indexes whose last line is ended by a newline
C22_InstallAppendsToIndexTerminated ==
  (InstallDone /\ Exists(fs0, IndexTs(op.baseDir))
     /\ EndsWithNL(fs0[IndexTs(op.baseDir)])) =>
    IndexAppended /\ IndexLinesAppended

\* C22, byte for byte only, on every index
C22_InstallAppendsBytes ==
  (InstallDone /\ Exists(fs0, IndexTs(op.baseDir))) => IndexAppended

\* the files named index.ts or index.js, anywhere in the project
IndexFiles(f) ==
  [p \in {q \in DOMAIN f : q.name \in {<<"index", "ts">>, <<"index", "js">>}}
     |-> f[p]]

\* C23: with index maintenance disabled (addIndex = false in the
\* configuration, or --no-index on add) a successful install creates no index
\* file and leaves every index file as it was, and every destination file of
\* the hook is written with its header and processed text.
C23_NoIndexLeavesIndexAlone ==
  (IsInstall(op) /\ ~op.addIndex) =>
    /\ IndexFiles(fs) = IndexFiles(fs0)
    /\ InstallDone =>
         \A i \in 1..Len(Meta.files) :
           LET dest == cwd(remapToBaseDir(Meta.files[i].to, op.baseDir))
           IN /\ Exists(fs, dest)
              /\ fs[dest] = HeaderLine(Meta, registry) \o
                   ProcessSource(Meta.files[i].text, op.strip,
                                 readConfig(cfg), dest)

\* add --no-index in a project whose configuration keeps the index and that
\* has an index.ts; and an install with addIndex = false where none exists
C23_Witness ==
  /\ op.kind = "add" /\ InstallDone /\ ~op.addIndex
  /\ readConfig(cfg).addIndex
  /\ Exists(fs0, IndexTs(op.baseDir))
  /\ ~HasExportFor(fs[IndexTs(op.baseDir)], lastExportName)
  /\ fs # fs0

\* the install failed inside the loop over the files, at file nextFile
InstallFailedAtFile ==
  /\ IsInstall(op) /\ pc = "failed" /\ err \in {"Fetch", "Write"}
  /\ op.net = "ok" /\ HasEntry(registry, op.id)

\* C24: when the install of a hook fails at file k (its fetch or its write
\* fails), the files 1..k-1 hold their new content, the files after k are as
\* they were before the install, and no index file is changed or created.
C24_FailureKeepsWrittenFiles ==
  InstallFailedAtFile =>
    /\ \A i \in 1..(nextFile - 1) :
         LET dest == cwd(remapToBaseDir(Meta.files[i].to, op.baseDir))
         IN /\ Exists(fs, dest)
            /\ fs[dest] = HeaderLine(Meta, registry) \o
                 ProcessSource(Meta.files[i].text, op.strip,
                               readConfig(cfg), dest)
    /\ \A i \in (nextFile + 1)..Len(Meta.files) :
         LET dest == cwd(remapToBaseDir(Meta.files[i].to, op.baseDir))
         IN /\ Exists(fs, dest) = Exists(fs0, dest)
            /\ Exists(fs, dest) => fs[dest] = fs0[dest]
    /\ IndexFiles(fs) = IndexFiles(fs0)

\* the write of the second file of use-b failed after the first file, which
\* existed with other content, was rewritten; the index would have been kept
C24_Witness ==
  /\ InstallFailedAtFile /\ err = "Write" /\ nextFile = 2
  /\ op.addIndex
  /\ LET dest == cwd(remapToBaseDir(Meta.files[1].to, op.baseDir))
     IN Exists(fs0, dest) /\ fs[dest] # fs0[dest]

\* the fetch of the first file of a hook of two files failed
C24_WitnessFirst ==
  /\ InstallFailedAtFile /\ err = "Fetch" /\ nextFile = 1
  /\ Len(Meta.files) = 2

(***************************************************************************)
(* update                                                                  *)
(***************************************************************************)
UpdateDone == op.kind = "update" /\ pc = "done" /\ ~op.dry

\* the version the header of the file decodes to, before and after
LocalVersion(f, dest) == parseLocalHookVersion(f, dest).version

\* C25: a successful non-dry update rewrites every destination file of the
\* hook from the registry (header and processed source), whether the version
\* installed before was lower than, equal to or higher than the registry's,
\* and the version the header decodes to is then the registry metadata's
\* version (0.0.0 standing for a metadata without version).
C25_UpdateAlwaysRewrites ==
  UpdateDone =>
    \A i \in 1..Len(Meta.files) :
      LET dest == cwd(remapToBaseDir(Meta.files[i].to, op.baseDir))
      IN /\ Exists(fs, dest)
         /\ fs[dest] = HeaderLine(Meta, registry) \o
              ProcessSource(Meta.files[i].text, op.strip, readConfig(cfg), dest)
         /\ LocalVersion(fs, dest) = OrZero(Meta.version)

\* the installed version was higher than the registry's and the file was
\* rewritten at the registry's version
C25_Witness ==
  /\ UpdateDone
  /\ \E i \in 1..Len(Meta.files) :
       LET dest == cwd(remapToBaseDir(Meta.files[i].to, op.baseDir))
       IN /\ Exists(fs0, dest)
          /\ LocalVersion(fs0, dest) # <<>>
          /\ Meta.version # <<>>
          /\ cmpSemver(LocalVersion(fs0, dest), Meta.version) > 0
          /\ fs[dest] # fs0[dest]

\* the installed version was lower than the registry's
C25_WitnessLower ==
  /\ UpdateDone
  /\ \E i \in 1..Len(Meta.files) :
       LET dest == cwd(remapToBaseDir(Meta.files[i].to, op.baseDir))
       IN /\ Exists(fs0, dest)
          /\ LocalVersion(fs0, dest) # <<>>
          /\ cmpSemver(LocalVersion(fs0, dest), OrZero(Meta.version)) < 0

\* the installed version was the registry's: the files were written again
\* (the backup made by this update holds the same text)
C25_WitnessEqual ==
  /\ UpdateDone /\ ~op.force
  /\ \E i \in 1..Len(Meta.files) :
       LET dest == cwd(remapToBaseDir(Meta.files[i].to, op.baseDir))
       IN /\ Exists(fs0, dest)
          /\ LocalVersion(fs0, dest) = OrZero(Meta.version)
          /\ ~Exists(fs0, BakPath(dest))
          /\ Exists(fs, BakPath(dest))

(***************************************************************************)
(* file names and header ids                                               *)
(***************************************************************************)
\* an installed file: not a backup, and its text holds a header that decodes
IsInstalledFile(f, p) == ~IsBak(p) /\ FirstHeader(f[p]) # NoParse

\* every installed file is named after the hook id of its header
NamesAgree(f) ==
  \A p \in DOMAIN f :
    IsInstalledFile(f, p) => fileBaseName(p) = FirstHeader(f[p]).id

\* C26: in every state reached by install, update, remove and migrate, the
\* base name (without extension) of every installed file equals the hook id
\* of the file's header: no step of these commands leads from a project in
\* which the names agree to one in which they do not.
C26_BaseNameIsHeaderId ==
  [][(op'.kind \in {"add", "update", "remove", "migrate"} /\ NamesAgree(fs))
       => NamesAgree(fs')]_vars

\* every file of the hook is named after the hook
NamedAfterHook(reg, id) ==
  \A i \in 1..Len(FindEntry(reg, id).meta.files) :
    fileBaseName(FindEntry(reg, id).meta.files[i].to) = id

\* C26 for the hooks all of whose files are named after the hook
C26_BaseNameIsHeaderIdOneName ==
  [][(/\ op'.kind \in {"add", "update", "remove", "migrate"}
      /\ IsInstall(op') /\ HasEntry(registry, op'.id)
            => NamedAfterHook(registry, op'.id)
      /\ NamesAgree(fs))
       => NamesAgree(fs')]_vars

(***************************************************************************)
(* Local Inventory Reader                                                  *)
(***************************************************************************)
\* the install roots the inventory is read for
Roots == {DefaultBaseDir, AltDir, SubDir}

IsReExportLine(l) == \E i \in 1..Len(l) : l[i].k = "E"

\* the name of the (first) re-export statement of a line
NameOf(l) ==
  l[CHOOSE i \in 1..Len(l) :
      l[i].k = "E" /\ \A j \in 1..(i - 1) : l[j].k # "E"].n

\* what the claim says the Local Inventory Reader returns from an index
FromIndex(f, baseDir, indexPath) ==
  LET ls == SelectSeq(TextLines(f[indexPath]), IsReExportLine)
  IN [i \in 1..Len(ls) |->
        [id |-> NameOf(ls[i]),
         file |-> IF Exists(f, Path(baseDir, NameOf(ls[i]) \o <<"ts">>))
                    THEN Path(baseDir, NameOf(ls[i]) \o <<"ts">>)
                    ELSE Path(baseDir, NameOf(ls[i]) \o <<"js">>)]]

\* and from the directory scan, as a set: the walk fixes no order
FromScan(f, baseDir) ==
  {[id |-> fileBaseName(p), file |-> p] :
     p \in {q \in DOMAIN f : IsPrefix(baseDir, q.dir) /\ IsHookFileName(q)}}

InventoryAsClaimed(f, ds, baseDir) ==
  LET got == listLocalHooks(f, ds, baseDir)
  IN IF Exists(f, IndexTs(baseDir))
       THEN got = FromIndex(f, baseDir, IndexTs(baseDir))
     ELSE IF Exists(f, IndexJs(baseDir))
       THEN got = FromIndex(f, baseDir, IndexJs(baseDir))
     ELSE IF baseDir \notin ds THEN got = <<>>
     ELSE /\ {got[i] : i \in 1..Len(got)} = FromScan(f, baseDir)
          /\ Len(got) = Cardinality(FromScan(f, baseDir))

\* C27: the Local Inventory Reader returns the empty sequence when there is
\* neither an index nor the install root; with an index (index.ts before
\* index.js) one item per re-export line, in file order, whose identifier is
\* the name of the line and whose file is <name>.ts if it exists and
\* <name>.js otherwise; and without an index one item per file below the
\* root named use-<something>.ts or .js, whose identifier is the base name.
C27_InventoryAsClaimed ==
  \A baseDir \in Roots : InventoryAsClaimed(fs, dirs, baseDir)

\* no line of the index holds quoted text after its re-export statement
PlainIndex(f, baseDir) ==
  \A ix \in {IndexTs(baseDir), IndexJs(baseDir)} :
    Exists(f, ix) =>
      \A i \in 1..Len(TextLines(f[ix])) :
        LET l == TextLines(f[ix])[i]
        IN \A j, k \in 1..Len(l) :
             (l[j].k = "E" /\ j < k) => l[k].k \notin Quoted

\* C27 for the indexes without quoted text after a statement
C27_InventoryAsClaimedPlain ==
  \A baseDir \in Roots :
    PlainIndex(fs, baseDir) => InventoryAsClaimed(fs, dirs, baseDir)

\* by hand: a comment that quotes a word after the statement
QuotedComment ==
  <<ExportStmt(IdA), OtherText, PlainString(<<"docs">>), OtherText>>

\* the greedy capture does not return the name of that line
C27_GreedyCapture == LineId(QuotedComment) # NameOf(QuotedComment)

(***************************************************************************)
(* Version strings and the header, character by character                  *)
(*                                                                         *)
(* A string is the sequence of its characters; a fixed piece of text that  *)
(* holds none of the characters looked for is one element.  HeaderTok and  *)
(* FirstHeader above stand for encodeHeader and decodeHeader on ids and    *)
(* versions for which the two agree.                                       *)
(***************************************************************************)
DigitChars == <<"0", "1", "2", "3", "4", "5", "6", "7", "8", "9">>

\* [0-9]
DigitClass == {DigitChars[d] : d \in 1..10}

DigitValue(c) == (CHOOSE d \in 1..10 : DigitChars[d] = c) - 1

RECURSIVE Digits(_)
\* String(n) of a natural number
Digits(n) ==
  IF n < 10 THEN <<DigitChars[n + 1]>>
  ELSE Digits(n \div 10) \o <<DigitChars[(n % 10) + 1]>>

\* `${major}.${minor}.${patch}`
FormatVersion(t) ==
  Digits(t[1]) \o <<".">> \o Digits(t[2]) \o <<".">> \o Digits(t[3])

RECURSIVE SplitDots(_, _)
\* s.split(".")
SplitDots(s, cur) ==
  IF s = <<>> THEN <<cur>>
  ELSE IF s[1] = "." THEN <<cur>> \o SplitDots(Tail(s), <<>>)
  ELSE SplitDots(Tail(s), Append(cur, s[1]))

RECURSIVE DecimalValue(_, _)
DecimalValue(s, acc) ==
  IF s = <<>> THEN acc
  ELSE DecimalValue(Tail(s), 10 * acc + DigitValue(s[1]))

\* (+n) || 0: the number a string of digits denotes; the empty string gives 0
\* and a string with another character gives NaN, which || turns into 0
NumberOrZero(n) ==
  IF \A i \in 1..Len(n) : n[i] \in DigitClass THEN DecimalValue(n, 0) ELSE 0

\* a.split(".").map((n) => +n), with the || 0 of the loop applied
ParseParts(a) ==
  LET parts == SplitDots(a, <<>>)
  IN [i \in 1..Len(parts) |-> NumberOrZero(parts[i])]

RECURSIVE StringOrder(_, _)
\* the order of two strings as strings: -1, 0 or 1
StringOrder(x, y) ==
  IF x = <<>> /\ y = <<>> THEN 0
  ELSE IF x = <<>> THEN -1
  ELSE IF y = <<>> THEN 1
  ELSE IF x[1] = y[1] THEN StringOrder(Tail(x), Tail(y))
  ELSE IF x[1] \in DigitClass /\ y[1] \in DigitClass
    THEN (IF DigitValue(x[1]) < DigitValue(y[1]) THEN -1 ELSE 1)
  ELSE IF y[1] \in DigitClass THEN -1 ELSE 1

\* mutant: the versions are compared as strings
cmpSemverText_AsStrings(a, b) == StringOrder(a, b)

\* cmpSemver(a, b) on version strings
cmpSemverText(a, b) == cmpSemver(ParseParts(a), ParseParts(b))

\* the characters of /[a-z0-9-]/i among those the model's ids are made of
IdClass == {"u", "s", "e", "a", "b", "U", "A", "-"} \cup DigitClass

\* header of installHook, without the final newline
encodeHeader(id, version, registryVersion) ==
  <<"/* Installed via wkkkis-hooks | ", "hook:">> \o id \o <<"@">> \o version
    \o <<" | registry:">> \o registryVersion \o <<" */">>

RECURSIVE RunLength(_, _)
\* the length of the longest prefix of s made of characters of the class
RunLength(s, class) ==
  IF s # <<>> /\ s[1] \in class THEN 1 + RunLength(Tail(s), class) ELSE 0

\* the match of ([a-z0-9-]+)@([0-9]+\.[0-9]+\.[0-9]+) at the start of s
\* (NoParse: none).  No character of a class is the character that must
\* follow its run, so each group is the longest run
MatchIdVersion(s) ==
  LET n == RunLength(s, IdClass)
      r1 == Drop(s, n + 1)
      d1 == RunLength(r1, DigitClass)
      r2 == Drop(r1, d1 + 1)
      d2 == RunLength(r2, DigitClass)
      r3 == Drop(r2, d2 + 1)
      d3 == RunLength(r3, DigitClass)
  IN IF /\ n >= 1 /\ Len(s) > n /\ s[n + 1] = "@"
        /\ d1 >= 1 /\ Len(r1) > d1 /\ r1[d1 + 1] = "."
        /\ d2 >= 1 /\ Len(r2) > d2 /\ r2[d2 + 1] = "."
        /\ d3 >= 1
       THEN [id |-> SubSeq(s, 1, n),
             version |-> SubSeq(r1, 1, d1) \o <<".">> \o SubSeq(r2, 1, d2)
                           \o <<".">> \o SubSeq(r3, 1, d3)]
       ELSE NoParse

RECURSIVE decodeHeader(_)
\* first.match(/hook:([a-z0-9-]+)@([0-9]+\.[0-9]+\.[0-9]+)/i): the leftmost
\* "hook:" after which the groups match
decodeHeader(first) ==
  IF first = <<>> THEN NoParse
  ELSE IF first[1] = "hook:" /\ MatchIdVersion(Tail(first)) # NoParse
    THEN MatchIdVersion(Tail(first))
  ELSE decodeHeader(Tail(first))

(***************************************************************************)
(* The pure functions on their own: cmpSemver, the header codec and the    *)
(* alias rewriter are applied to inputs drawn in the initial state.  op    *)
(* holds the function and its arguments, out and results what it returned. *)
(***************************************************************************)
\* pairs of versions whose components are drawn from 0, 1, 2, 9 and 10: as
\* text (a, b) and as triples of numbers (ta, tb)
CmpInputs ==
  LET Components == {0, 1, 2, 9, 10}
      Triples ==
        {<<x, y, z>> : x \in Components, y \in Components, z \in Components}
  IN {[kind |-> "cmpSemver", a |-> FormatVersion(x), b |-> FormatVersion(y),
       ta |-> x, tb |-> y] : x \in Triples, y \in Triples}

\* hook ids: three of letters, digits and hyphens, one with an underscore,
\* one with a dot; versions of three numbers and one with a pre-release tag;
\* what follows the header line is plain code, or code that quotes the header
\* of another hook in a comment
HeaderInputs ==
  LET IdTexts ==
        { <<"u", "s", "e", "-", "a">>, <<"u", "s", "e", "-", "a", "2">>,
          <<"U", "s", "e", "-", "A">>, <<"u", "s", "e", "_", "a">>,
          <<"u", "s", "e", "-", "a", ".", "b">> }
      VersionTexts ==
        {FormatVersion(<<x, y, z>>) :
           x \in {0, 1, 10}, y \in {0, 1, 10}, z \in {0, 1, 10}}
          \cup { <<"1", ".", "2", ".", "0", "-", "b">> }
      RegistryVersionTexts == { <<"7">>, <<"0">>, <<"1", ".", "0", ".", "0">> }
      Bodies ==
        { <<"x", "\n">>,
          <<"x", "hook:", "u", "s", "e", "-", "b", "@", "9", ".", "9", ".", "9",
            "\n">> }
  IN {[kind |-> "header", id |-> i, version |-> v, registryVersion |-> r,
       body |-> b] :
        i \in IdTexts, v \in VersionTexts, r \in RegistryVersionTexts,
        b \in Bodies}

\* contents without a header: empty, plain code, a header cut short, a
\* version of two parts, no "hook:", no id
PlainInputs ==
  LET PlainTexts ==
        { <<>>, <<"x", "\n">>,
          <<"hook:", "u", "s", "e", "-", "a">>,
          <<"hook:", "u", "s", "e", "-", "a", "@", "1", ".", "0">>,
          <<"u", "s", "e", "-", "a", "@", "1", ".", "0", ".", "0">>,
          <<"/* Installed via wkkkis-hooks | ", "hook:", "@", "1", ".", "0",
            ".", "0", " */">> }
  IN {[kind |-> "plain", body |-> t] : t \in PlainTexts}

\* alias rules, subpaths (with .., a dot-named directory), destination files,
\* the four shapes and the two quotes; the source text holds one import of
\* P/X, an import that does not use the alias and a string that is no import
RewriteInputs ==
  LET AliasRules ==
        { [prefix |-> <<"@">>, target |-> <<"src">>],
          [prefix |-> <<"~", "lib">>, target |-> <<".", "src", "lib">>],
          [prefix |-> <<"@">>, target |-> <<"src", "hooks", "..">>] }
      Subpaths ==
        { <<"lib", "util">>, <<"hooks">>, <<"..", "x">>, <<"hooks", ".cfg">>,
          <<"hooks", "sub", "..", "y">>, <<"hooks", "use-a">> }
      DestFiles ==
        { InRoot(<<"use-a", "ts">>), Path(SubDir, <<"use-b-core", "ts">>),
          Path(<<>>, <<"use-a", "ts">>), Path(AltDir, <<"use-a", "ts">>) }
      Shapes == {"from", "import(", "export*from", "require("}
      Quotes == {"'", "\""}
      CodeWith(shape, q, path) ==
        << OtherText, NL, ImportStmtQuoted(shape, path, q), NL,
           ImportStmt("from", <<"react">>), NL, PlainString(path), NL >>
  IN {[kind |-> "rewrite", aliasPrefix |-> rule.prefix,
       aliasTarget |-> rule.target, subpath |-> x, destAbsFile |-> d,
       code |-> CodeWith(shape, q, rule.prefix \o x)] :
        rule \in AliasRules, x \in Subpaths, d \in DestFiles, shape \in Shapes,
        q \in Quotes}

\* alias settings with the prefix, the target or both absent, and two that
\* are complete; source texts with an import of the alias next to relative
\* imports, an import of a package and one of a scoped package, with
\* imports that do not use the alias only, and the empty text
FrameInputs ==
  LET AliasRules ==
        { [prefix |-> <<"@">>, target |-> <<"src">>],
          [prefix |-> <<"~", "lib">>, target |-> <<"src", "lib">>],
          [prefix |-> <<>>, target |-> <<"src">>],
          [prefix |-> <<"@">>, target |-> <<>>],
          [prefix |-> <<>>, target |-> <<>>] }
      DestFiles ==
        { InRoot(<<"use-a", "ts">>), Path(SubDir, <<"use-b-core", "ts">>),
          Path(AltDir, <<"use-a", "ts">>) }
      Shapes == {"from", "import(", "export*from", "require("}
      Quotes == {"'", "\""}
      Others(shape, q) ==
        << ImportStmtQuoted(shape, <<".", "sub", "use-b-core">>, q), NL,
           ImportStmtQuoted(shape, <<"..", "lib", "util">>, q), NL,
           ImportStmtQuoted(shape, <<"react">>, q), NL,
           ImportStmtQuoted(shape, <<"@scope", "pkg">>, q), NL,
           ImportStmtQuoted(shape, <<"@">>, q), NL,
           PlainString(<<"@", "lib", "util">>), NL, OtherText, NL >>
      Codes(shape, q) ==
        { <<>>, Others(shape, q),
          << ImportStmtQuoted(shape, <<"@", "lib", "util">>, q), NL >>
            \o Others(shape, q)
            \o << ImportStmtQuoted(shape, <<"~", "lib", "x">>, q), NL >> }
  IN {[kind |-> "frame", aliasPrefix |-> rule.prefix,
       aliasTarget |-> rule.target, destAbsFile |-> d, code |-> c] :
        rule \in AliasRules, d \in DestFiles,
        c \in UNION {Codes(shape, q) : shape \in Shapes, q \in Quotes}}

\* fetched sources: the directive on the first line, with blank lines around
\* it, after other code, twice, absent, without a newline behind it, with
\* text behind it on its line, after an import, and the empty source; the
\* hook they belong to and the stripUseClient setting
StripInputs ==
  LET Sources ==
        { <<UseClient, NL, OtherText, NL>>,
          <<NL, NL, UseClient, NL, NL, OtherText, NL>>,
          <<OtherText, NL, UseClient, NL>>,
          <<UseClient, NL, UseClient, NL, OtherText, NL>>,
          <<OtherText, NL>>,
          <<UseClient>>,
          <<UseClient, OtherText, NL>>,
          <<ImportStmt("from", <<"react">>), NL, UseClient, NL, OtherText, NL>>,
          <<>> }
  IN {[kind |-> "strip", code |-> c, strip |-> b, id |-> i,
       destAbsFile |-> InRoot(i \o <<"ts">>)] :
        c \in Sources, b \in BOOLEAN, i \in {IdA, IdB}}

PureInit ==
  /\ \/ op \in CmpInputs
     \/ op \in StripInputs
     \/ op \in HeaderInputs
     \/ op \in PlainInputs
     \/ op \in RewriteInputs
     \/ op \in FrameInputs
  /\ pc = "idle"
  /\ fs = <<>> /\ fs0 = <<>>
  /\ dirs = {<<>>} /\ dirs0 = {<<>>}
  /\ cfg = DEFAULT_CFG /\ cfg0 = DEFAULT_CFG
  /\ registry = BigRegistry(0)
  /\ nextFile = 1
  /\ lastExportName = <<>>
  /\ err = ""
  /\ out = <<>>
  /\ pending = {}
  /\ anyOut = FALSE
  /\ lost = {}
  /\ last = NoWrite
  /\ prev = NoInstall
  /\ nOps = 0
  /\ nextHook = 1
  /\ results = <<>>
  /\ exit = Running
  /\ requested = <<>>
  /\ kept = {}

Returns(value, nextPc) ==
  /\ out' = value
  /\ pc' = nextPc
  /\ UNCHANGED <<fs, dirs, cfg, registry, op, nextFile, lastExportName, err,
                 pending, anyOut, lost, fs0, cfg0, dirs0, last, prev, nOps, exit,
                 nextHook, results, requested, kept>>

\* cmpSemver(a, b), cmpSemver(b, a) and cmpSemver(a, a)
ApplyCmpSemver ==
  /\ pc = "idle" /\ op.kind = "cmpSemver"
  /\ Returns(<< cmpSemverText(op.a, op.b), cmpSemverText(op.b, op.a),
                cmpSemverText(op.a, op.a) >>, "done")

\* header + content, as installHook writes it
EncodeHeader ==
  /\ pc = "idle" /\ op.kind = "header"
  /\ Returns(encodeHeader(op.id, op.version, op.registryVersion)
               \o <<"\n">> \o op.body, "text")

\* parseLocalHookVersion on the text just written, or on a text without
\* header
DecodeHeader ==
  /\ \/ pc = "text"
     \/ pc = "idle" /\ op.kind = "plain"
  /\ results' = << decodeHeader(IF op.kind = "plain" THEN op.body ELSE out) >>
  /\ pc' = "done"
  /\ UNCHANGED <<fs, dirs, cfg, registry, op, nextFile, lastExportName, err,
                 out, pending, anyOut, lost, fs0, cfg0, dirs0, last, prev,
                 nOps, exit, nextHook, requested, kept>>

ApplyRewrite ==
  /\ pc = "idle" /\ op.kind \in {"rewrite", "frame"}
  /\ Returns(rewriteAliasImports(op.code, op.aliasPrefix, op.aliasTarget,
                                 op.destAbsFile), "done")

\* lines 353-374 of installHook for one fetched source: the directive is
\* stripped, the aliases are rewritten, the header is put in front
ApplyStrip ==
  /\ pc = "idle" /\ op.kind = "strip"
  /\ Returns(HeaderLine([id |-> op.id, version |-> <<1, 0, 0>>], registry)
               \o ProcessSource(op.code, op.strip, readConfig(cfg),
                                op.destAbsFile), "done")

PureNext ==
  ApplyCmpSemver \/ EncodeHeader \/ DecodeHeader \/ ApplyRewrite \/ ApplyStrip

PureSpec == PureInit /\ [][PureNext]_vars

(***************************************************************************)
(* cmpSemver                                                               *)
(***************************************************************************)
Sign(n) == IF n > 0 THEN 1 ELSE IF n < 0 THEN -1 ELSE 0

\* the order of two triples of numbers: by major, then minor, then patch
LexSign(x, y) ==
  IF x[1] # y[1] THEN (IF x[1] < y[1] THEN -1 ELSE 1)
  ELSE IF x[2] # y[2] THEN (IF x[2] < y[2] THEN -1 ELSE 1)
  ELSE IF x[3] # y[3] THEN (IF x[3] < y[3] THEN -1 ELSE 1)
  ELSE 0

CmpDone == op.kind = "cmpSemver" /\ pc = "done"

\* C28: for all triples a and b the sign of cmpSemver(a, b) is the sign of
\* the comparison of (major, minor, patch) as numbers: cmpSemver(a, a) = 0,
\* cmpSemver(b, a) has the opposite sign, 1.2.0 > 1.1.9, 1.0.0 = 1.0.0,
\* 0.9.0 < 1.0.0 and 1.10.0 > 1.9.0.
C28_CmpSemverIsNumericOrder ==
  CmpDone =>
    /\ Sign(out[1]) = LexSign(op.ta, op.tb)
    /\ Sign(out[2]) = 0 - Sign(out[1])
    /\ out[3] = 0
    /\ (op.ta = <<1, 2, 0>> /\ op.tb = <<1, 1, 9>>) => out[1] > 0
    /\ (op.ta = <<1, 0, 0>> /\ op.tb = <<1, 0, 0>>) => out[1] = 0
    /\ (op.ta = <<0, 9, 0>> /\ op.tb = <<1, 0, 0>>) => out[1] < 0
    /\ (op.ta = <<1, 10, 0>> /\ op.tb = <<1, 9, 0>>) => out[1] > 0

\* 1.10.0 was compared with 1.9.0
C28_Witness ==
  /\ CmpDone
  /\ op.a = <<"1", ".", "1", "0", ".", "0">>
  /\ op.b = <<"1", ".", "9", ".", "0">>
  /\ out[1] > 0 /\ out[2] < 0

(***************************************************************************)
(* header round trip                                                       *)
(***************************************************************************)
\* C29: for every hook id, hook version and registry version, decoding a
\* file whose first line is the header encoded from them returns exactly the
\* id and the version; decoding a content without header returns the absent
\* result.
C29_HeaderRoundTrip ==
  /\ (op.kind = "header" /\ pc = "done") =>
       results[1] = [id |-> op.id, version |-> op.version]
  /\ (op.kind = "plain" /\ pc = "done") => results[1] = NoParse

\* the id is made of letters, digits and hyphens only
InIdClass(id) == \A i \in 1..Len(id) : id[i] \in IdClass

\* the version is three numbers separated by dots
IsNumericTriple(v) ==
  LET parts == SplitDots(v, <<>>)
  IN /\ Len(parts) = 3
     /\ \A i \in 1..3 :
          parts[i] # <<>> /\ \A j \in 1..Len(parts[i]) : parts[i][j] \in DigitClass

\* C29 for the ids made of letters, digits and hyphens and the versions of
\* three numbers
C29_HeaderRoundTripInClass ==
  /\ (op.kind = "header" /\ pc = "done" /\ InIdClass(op.id)
        /\ IsNumericTriple(op.version)) =>
       results[1] = [id |-> op.id, version |-> op.version]
  /\ (op.kind = "plain" /\ pc = "done") => results[1] = NoParse

\* an id of the class with a version of several digits was decoded
C29_WitnessInClass ==
  /\ op.kind = "header" /\ pc = "done"
  /\ op.id = <<"U", "s", "e", "-", "A">>
  /\ op.version = <<"1", "0", ".", "0", ".", "1", "0">>
  /\ op.registryVersion = <<"1", ".", "0", ".", "0">>
  /\ results[1].id = op.id

(***************************************************************************)
(* alias rewriting                                                         *)
(***************************************************************************)
RewriteDone == op.kind = "rewrite" /\ pc = "done"

\* C30: for every alias rule (prefix P, target T), subpath X and destination
\* file D, the import of P/X, in each of the four shapes, is rewritten to a
\* path R that starts with a dot and that, resolved from the directory of D,
\* is the path X resolves to against T; the shape and the quotes of the
\* statement are kept, and so is the rest of the text.
C30_RewriteResolvesToTarget ==
  RewriteDone =>
    /\ Len(out) = Len(op.code)
    /\ \A i \in 1..Len(out) : i # 3 => out[i] = op.code[i]
    /\ out[3].k = "IMP" /\ out[3].r = op.code[3].r /\ out[3].v = op.code[3].v
    /\ out[3].n # <<>> /\ out[3].n[1] \in DotSegments
    /\ ResolveSegs(op.destAbsFile.dir, out[3].n) =
         ResolveSegs(ResolveSegs(<<>>, op.aliasTarget), op.subpath)

\* a require('..') with single quotes was rewritten to a path that climbs
\* out of the directory of the destination
C30_Witness ==
  /\ RewriteDone
  /\ op.code[3].r = "require(" /\ op.code[3].v = <<"'">>
  /\ op.destAbsFile.dir = SubDir
  /\ out[3].n[1] = ".." /\ out[3].n # op.code[3].n

\* the path rewritten to starts with a directory whose name starts with a dot
C30_WitnessDotName ==
  RewriteDone /\ out[3].n[1] = ".cfg"

(***************************************************************************)
(* what the rewriter leaves alone                                          *)
(***************************************************************************)
FrameDone == op.kind = "frame" /\ pc = "done"

\* the statement t imports a module below the prefix
UsesPrefix(t, prefix) ==
  t.k = "IMP" /\ prefix # <<>> /\ IsPrefix(prefix, t.n) /\ t.n # prefix

\* C31: the rewriter returns the code unchanged when aliasPrefix or
\* aliasTarget is absent and when no import uses the prefix; in every case
\* each statement that does not import below the prefix (relative imports,
\* packages, scoped packages, plain strings) is in the result as it was.
C31_RewriterLeavesOthersAlone ==
  FrameDone =>
    /\ (op.aliasPrefix = <<>> \/ op.aliasTarget = <<>>) => out = op.code
    /\ (\A i \in 1..Len(op.code) : ~UsesPrefix(op.code[i], op.aliasPrefix))
         => out = op.code
    /\ Len(out) = Len(op.code)
    /\ \A i \in 1..Len(op.code) :
         ~UsesPrefix(op.code[i], op.aliasPrefix) => out[i] = op.code[i]

\* a text with an import of the alias was rewritten: that import changed, the
\* relative imports beside it did not
C31_Witness ==
  /\ FrameDone
  /\ op.aliasPrefix = <<"@">> /\ op.aliasTarget = <<"src">>
  /\ Len(op.code) > 2
  /\ out[1] # op.code[1]
  /\ out[3] = op.code[3] /\ out[3].n = <<".", "sub", "use-b-core">>

\* a text with an import of @/lib/util went through unchanged because the
\* target is absent
C31_WitnessAbsent ==
  /\ FrameDone
  /\ op.aliasPrefix = <<"@">> /\ op.aliasTarget = <<>>
  /\ Len(op.code) > 0 /\ op.code[1].n = <<"@", "lib", "util">>
  /\ out = op.code

(***************************************************************************)
(* A registry whose destinations are not all below hooks/ or src/hooks/    *)
(***************************************************************************)
IdC == <<"use-c">>
IdD == <<"use-d">>
IdE == <<"use-e">>

\* meta.files[].to is whatever the registry serves: use-c climbs out of the
\* canonical directory (hooks/../lib/use-c.ts), use-d names another
\* directory (lib/use-d.ts), use-e a directory whose name starts with hooks
\* (hooks-extra/use-e.ts)
DestRegistry ==
  [version |-> "7",
   hooks |->
     << Entry(IdA, <<1, 2, 0>>, FilesA), Entry(IdB, <<1, 10, 0>>, FilesB),
        Entry(IdC, <<1, 0, 0>>,
              << FileDesc(Path(<<"hooks", "..", "lib">>, <<"use-c", "ts">>),
                          <<OtherText, NL>>) >>),
        Entry(IdD, <<1, 0, 0>>,
              << FileDesc(Path(<<"lib">>, <<"use-d", "ts">>),
                          <<OtherText, NL>>) >>),
        Entry(IdE, <<1, 0, 0>>,
              << FileDesc(Path(<<"hooks-extra">>, <<"use-e", "ts">>),
                          <<OtherText, NL>>) >>) >>]

DestHookIds == {IdA, IdB, IdC, IdD, IdE}

\* a project with files of its own beside the install root: src/lib/use-c.ts,
\* lib/use-d.ts and src/hooks-extra/use-e.ts were written by hand
ProjectOwnFiles ==
  [fs |-> Files(<<
      << Path(<<"src", "lib">>, <<"use-c", "ts">>), <<OtherText, NL, OtherText, NL>> >>,
      << Path(<<"lib">>, <<"use-d", "ts">>), <<OtherText, NL, OtherText, NL>> >>,
      << Path(<<"src", "hooks-extra">>, <<"use-e", "ts">>),
         <<OtherText, NL, OtherText, NL>> >> >>),
   dirs |-> Ancestors(<<"src", "lib">>) \cup Ancestors(<<"lib">>)
              \cup Ancestors(<<"src", "hooks-extra">>)
              \cup Ancestors(DefaultBaseDir),
   cfg |-> DEFAULT_CFG]

DestInit ==
  /\ \E proj \in {ProjectEmpty, ProjectOwnFiles} :
       /\ fs = proj.fs
       /\ dirs = proj.dirs
       /\ cfg = proj.cfg
       /\ fs0 = proj.fs
       /\ dirs0 = proj.dirs
       /\ cfg0 = proj.cfg
  /\ registry = DestRegistry
  /\ pc = "idle"
  /\ op = NoCommand
  /\ nextFile = 1
  /\ lastExportName = <<>>
  /\ err = ""
  /\ out = <<>>
  /\ pending = {}
  /\ anyOut = FALSE
  /\ lost = {}
  /\ last = NoWrite
  /\ prev = NoInstall
  /\ nOps = 0
  /\ nextHook = 1
  /\ results = <<>>
  /\ exit = Running
  /\ requested = <<>>
  /\ kept = {}

\* add, update and remove, with the network up
DestNext ==
  \/ \E id \in DestHookIds, pathFlag \in PathFlags :
        cmdAdd(id, pathFlag, FALSE, "ok")
  \/ \E id \in DestHookIds, pathFlag \in PathFlags, force \in BOOLEAN :
        cmdUpdate(id, pathFlag, FALSE, force, "ok")
  \/ InstallFile("ok")
  \/ InstallIndex
  \/ \E id \in DestHookIds, pathFlag \in PathFlags :
        cmdRemove(id, pathFlag, "ok")
  \/ Exit

DestSpec == DestInit /\ [][DestNext]_vars

\* the file p lies in the directory root or below it
InsideRoot(p, root) == IsPrefix(root, p.dir)

\* the destination starts with hooks/ or src/hooks/
HasCanonicalPrefix(to) ==
  IsPrefix(<<"hooks">>, to.dir) \/ IsPrefix(<<"src", "hooks">>, to.dir)

\* the directories of the destination beneath hooks/ or src/hooks/
BeneathPrefix(to) ==
  IF to.dir[1] = "src" THEN Drop(to.dir, 2) ELSE Drop(to.dir, 1)

\* the file p was created, rewritten or deleted by the running command
ChangedFile(p) ==
  \/ p \in DOMAIN fs /\ (p \notin DOMAIN fs0 \/ fs[p] # fs0[p])
  \/ p \in DOMAIN fs0 /\ p \notin DOMAIN fs

InstallOrRemove ==
  op.kind \in {"add", "update", "remove"} /\ HasEntry(registry, op.id)

\* C32: for every file descriptor of the metadata, the destination add,
\* update and remove compute is the install root followed by what the
\* descriptor has beneath hooks/ or src/hooks/, and it lies inside the
\* install root; every file the command creates, rewrites or deletes lies
\* inside the install root.
C32_DestinationsInsideRoot ==
  InstallOrRemove =>
    /\ \A i \in 1..Len(Meta.files) :
         LET to == Meta.files[i].to
         IN /\ HasCanonicalPrefix(to) =>
                 remapToBaseDir(to, op.baseDir) =
                   Path(op.baseDir \o BeneathPrefix(to), to.name)
            /\ InsideRoot(cwd(remapToBaseDir(to, op.baseDir)), op.baseDir)
    /\ \A p \in DOMAIN fs \cup DOMAIN fs0 :
         ChangedFile(p) => InsideRoot(p, op.baseDir)

\* the destination is below hooks/ or src/hooks/ and names no parent
\* directory
StaysBelowPrefix(to) ==
  /\ HasCanonicalPrefix(to)
  /\ \A j \in 1..Len(to.dir) : to.dir[j] # ".."

\* C32 for the hooks all of whose destinations stay below hooks/ or
\* src/hooks/
C32_DestinationsInsideRootBelowPrefix ==
  (InstallOrRemove
     /\ \A i \in 1..Len(Meta.files) : StaysBelowPrefix(Meta.files[i].to)) =>
    /\ \A i \in 1..Len(Meta.files) :
         LET to == Meta.files[i].to
         IN /\ remapToBaseDir(to, op.baseDir) =
                 Path(op.baseDir \o BeneathPrefix(to), to.name)
            /\ InsideRoot(cwd(remapToBaseDir(to, op.baseDir)), op.baseDir)
    /\ \A p \in DOMAIN fs \cup DOMAIN fs0 :
         ChangedFile(p) => InsideRoot(p, op.baseDir)

\* remove use-c deleted the hand-written src/lib/use-c.ts
C32_RemoveDeletesOutside ==
  ~(/\ op.kind = "remove" /\ op.id = IdC /\ pc = "done"
    /\ Path(<<"src", "lib">>, <<"use-c", "ts">>) \in DOMAIN fs0 \ DOMAIN fs)

\* use-b was installed below --path=src/shared/hooks, its second file in sub/
C32_WitnessBelowPrefix ==
  /\ op.kind = "add" /\ op.id = IdB /\ pc = "done" /\ op.baseDir = AltDir
  /\ Path(AltDir \o <<"sub">>, <<"use-b-core", "ts">>) \in DOMAIN fs

(***************************************************************************)
(* the "use client"; directive                                             *)
(***************************************************************************)
StripDone == op.kind = "strip" /\ pc = "done"

\* the number of directives in the text
Directives(t) == Cardinality({i \in 1..Len(t) : t[i] = UseClient})

\* the first line of t that is not blank is the directive
LeadsWithDirective(t) ==
  \E i \in 1..Len(t) :
    t[i] = UseClient /\ \A j \in 1..(i - 1) : t[j] = NL

\* the first line of t that is not blank holds the directive and nothing else
DirectiveLineFirst(t) ==
  \E i \in 1..(Len(t) - 1) :
    t[i] = UseClient /\ t[i + 1] = NL /\ \A j \in 1..(i - 1) : t[j] = NL

C33_WitnessTwo ==
  /\ StripDone /\ op.strip
  /\ Directives(op.code) = 2
  /\ Drop(out, 2) = <<UseClient, NL, OtherText, NL>>

\* a directive behind other code was written although stripping is enabled
C33_WitnessBehind ==
  /\ StripDone /\ op.strip
  /\ op.code = <<OtherText, NL, UseClient, NL>>
  /\ Drop(out, 2) = op.code

(***************************************************************************)
(* How a process ends                                                      *)
(***************************************************************************)
\* the subcommands main refuses without their argument (migrate: without
\* its --path flag)
NeedArgument == {"info", "update", "remove", "preset", "search", "migrate"}

\* the error was thrown by main itself.  The "Usage" error of cmdMigrate for
\* an empty --path= value is raised inside the command
ThrownInMain == err = "Usage" /\ op.net = "none"

\* main throws "Usage: ..." inside its try block, before any command is
\* called and before anything is fetched
UsageError(kind) ==
  /\ Begin(Command(kind, <<>>, <<>>, FALSE, FALSE, FALSE, FALSE, "none"),
           "failed", "Usage")
  /\ out' = <<>>
  /\ UNCHANGED <<fs, dirs, cfg, registry, pending, anyOut, nextHook, results,
                 requested, kept>>

\* what the runtime does with a promise that rejects and that nobody
\* handles: it raises an uncaught exception (trace on stderr, exit code 1),
\* which is what Node 18 does unless told otherwise, or, started with
\* --unhandled-rejections=warn, it writes a warning and the process ends
\* with exit code 0
Runtimes == {"throw", "warn"}

\* the end of main.  An error thrown inside the try block is caught:
\* console.error and process.exit(1).  A command is called as
\* `return cmdX()`, without await, so the try block is left when the call
\* returns its promise; when that promise rejects, the promise of main()
\* rejects and the call `main();` at the end of the file handles nothing
MainEnds(runtime) ==
  /\ pc \in Terminal
  /\ exit = Running
  /\ exit' = IF pc = "done" THEN [code |-> 0, stderr |-> "none"]
             ELSE IF ThrownInMain THEN [code |-> 1, stderr |-> "main"]
             ELSE IF runtime = "throw" THEN [code |-> 1, stderr |-> "runtime"]
             ELSE [code |-> 0, stderr |-> "runtime"]
  /\ UNCHANGED <<fs, dirs, cfg, registry, pc, op, nextFile, lastExportName,
                 err, out, pending, anyOut, lost, fs0, cfg0, dirs0, last, prev,
                 nOps, nextHook, results, requested, kept>>

\* one process, from the dispatch in main to its end
MainNext ==
  \/ RunCommand
  \/ RunPresetOrInit
  \/ \E kind \in NeedArgument : UsageError(kind)
  \/ \E runtime \in Runtimes : MainEnds(runtime)

MainSpec == Init /\ [][MainNext]_vars

EndedInError == exit # Running /\ pc = "failed"

\* C34: whenever a subcommand ends in an error, thrown in main while the
\* arguments are checked or raised inside the command (unknown hook, failed
\* fetch, failed write), the process ends with a non-zero exit code and the
\* message on stderr is the one main's catch prints.
C34_ErrorsReachMainHandler ==
  EndedInError => exit.code # 0 /\ exit.stderr = "main"

\* C34 for the errors thrown in main while the arguments are checked
C34_UsageErrorsReachMainHandler ==
  (EndedInError /\ ThrownInMain) => exit.code = 1 /\ exit.stderr = "main"

\* an error raised inside a command never reaches main's catch: what is on
\* stderr comes from the runtime
C34_RejectionsSkipMainHandler ==
  (EndedInError /\ ~ThrownInMain) => exit.stderr = "runtime"

\* a process that ends without error ends with exit code 0
C34_SuccessExitsZero ==
  (exit # Running /\ pc = "done") => exit = [code |-> 0, stderr |-> "none"]

\* update without a hook id ended through main's catch
C34_WitnessUsage ==
  /\ EndedInError /\ op.kind = "update" /\ ThrownInMain
  /\ exit = [code |-> 1, stderr |-> "main"]

(***************************************************************************)
(* The worker pool of search                                               *)
(***************************************************************************)
\* a search whose registry was fetched
Searching == op.kind = "search" /\ pc \in {"searching", "done"}

\* the positions in registry.hooks whose meta.json was requested so far
Requests == {requested[k] : k \in DOMAIN requested}

\* no position was requested twice
RequestedOnce ==
  \A j, k \in DOMAIN requested : requested[j] = requested[k] => j = k

\* every request goes to a hook of the registry and is sent once, a request
\* in flight is among those sent, a hook whose request failed is not
\* requested again, and once no request is in flight every hook was asked for
PoolRequestsEachOnce ==
  Searching =>
    /\ RequestedOnce
    /\ Requests \subseteq 1..Len(registry.hooks)
    /\ pending \subseteq Requests
    /\ lost \cap pending = {}
    /\ Cardinality(pending) <= limit
    /\ pending = {} => Requests = 1..Len(registry.hooks)

\* C35: the worker pool of search requests the meta.json of every hook of
\* the registry exactly once, whether requests fail or not, and search
\* ends once no request is in flight, for registries of 0 to MaxHooks hooks
\* and every order of completion
C35_PoolRequestsEachOnceAndEnds ==
  /\ []PoolRequestsEachOnce
  /\ (op.kind = "search" /\ pc = "searching" /\ pending = {})
       ~> (op.kind = "search" /\ pc = "done")

\* a search over more hooks than workers has ended although requests failed
C35_Witness ==
  /\ op.kind = "search" /\ pc = "done"
  /\ Len(registry.hooks) > limit
  /\ lost = Flaky
  /\ Requests = 1..Len(registry.hooks)

\* a search over an empty registry has ended without a request
C35_WitnessEmpty ==
  op.kind = "search" /\ pc = "done" /\ registry.hooks = <<>> /\ requested = <<>>

\* a search over fewer hooks than workers has ended
C35_WitnessBelow ==
  /\ op.kind = "search" /\ pc = "done"
  /\ Len(registry.hooks) \in 1..(limit - 1)
  /\ Len(requested) = Len(registry.hooks)

(***************************************************************************)
(* Install and the inventory                                               *)
(***************************************************************************)
\* the identifiers listLocalHooks returns
ListedIds(f, ds, baseDir) ==
  LET hooks == listLocalHooks(f, ds, baseDir)
  IN {hooks[i].id : i \in 1..Len(hooks)}

\* C36: a successful install hides no installed hook: every identifier
\* listLocalHooks returned for the install root before the install is still
\* returned after it, whatever index maintenance earlier installs used and
\* whether the root holds index.js, index.ts or no index
C36_InstallKeepsInventory ==
  InstallDone =>
    ListedIds(fs0, dirs0, op.baseDir) \subseteq ListedIds(fs, dirs, op.baseDir)

\* the inventory is kept when the install leaves the index alone, or appends
\* to an index.ts whose last line is ended
C36_InstallKeepsInventoryOfIndexTs ==
  (InstallDone /\ (~op.addIndex
                     \/ (/\ Exists(fs0, IndexTs(op.baseDir))
                         /\ EndsWithNL(fs0[IndexTs(op.baseDir)])))) =>
    ListedIds(fs0, dirs0, op.baseDir) \subseteq ListedIds(fs, dirs, op.baseDir)

\* an install with index maintenance after a successful install without it,
\* into the same root: the new index.ts names the installed hook alone and
\* the hook installed before is no longer listed
C36_HiddenAfterScan ==
  ~(/\ InstallDone /\ op.addIndex
    /\ prev.installed /\ prev.baseDir = op.baseDir
    /\ ~Exists(fs0, IndexTs(op.baseDir)) /\ ~Exists(fs0, IndexJs(op.baseDir))
    /\ prev.id \in ListedIds(fs0, dirs0, op.baseDir)
    /\ prev.id \notin ListedIds(fs, dirs, op.baseDir))

\* an install with index maintenance into a root that holds index.js: the
\* new index.ts is read instead of it
C36_HiddenAfterIndexJs ==
  ~(/\ InstallDone /\ op.addIndex
    /\ ~Exists(fs0, IndexTs(op.baseDir)) /\ Exists(fs0, IndexJs(op.baseDir))
    /\ ~(ListedIds(fs0, dirs0, op.baseDir)
           \subseteq ListedIds(fs, dirs, op.baseDir)))

\* an install appended to an index.ts that listed other hooks
C36_WitnessIndexTs ==
  /\ InstallDone /\ op.addIndex
  /\ Exists(fs0, IndexTs(op.baseDir))
  /\ EndsWithNL(fs0[IndexTs(op.baseDir)])
  /\ fs[IndexTs(op.baseDir)] # fs0[IndexTs(op.baseDir)]
  /\ ListedIds(fs0, dirs0, op.baseDir) # {}

(***************************************************************************)
(* Runs of successful installs, updates and removes from an empty project  *)
(***************************************************************************)
\* the number of commands of such a run, doctor included
MaxCleanOps == MaxOps + 2

\* a snapshot whose versions are not of three parts: use-a is at "1.2",
\* use-b at "1.10.0.1"
OddVersions ==
  [version |-> "7",
   hooks |-> << Entry(IdA, <<1, 2>>, FilesA),
                Entry(IdB, <<1, 10, 0, 1>>, FilesB) >>]

CleanInit ==
  /\ registry \in Registries \cup {OddVersions}
  /\ fs = ProjectEmpty.fs
  /\ dirs = ProjectEmpty.dirs
  /\ cfg = ProjectEmpty.cfg
  /\ fs0 = ProjectEmpty.fs
  /\ dirs0 = ProjectEmpty.dirs
  /\ cfg0 = ProjectEmpty.cfg
  /\ pc = "idle"
  /\ op = NoCommand
  /\ nextFile = 1
  /\ lastExportName = <<>>
  /\ err = ""
  /\ out = <<>>
  /\ pending = {}
  /\ anyOut = FALSE
  /\ lost = {}
  /\ last = NoWrite
  /\ prev = NoInstall
  /\ nOps = MaxOps - MaxCleanOps
  /\ nextHook = 1
  /\ results = <<>>
  /\ exit = Running
  /\ requested = <<>>
  /\ kept = {}

\* add, update and remove of the hooks of the registry into the configured
\* root, with the network and the disk up, doctor and outdated
CleanNext ==
  \/ \E id \in {IdA, IdB}, noIndex \in BOOLEAN : cmdAdd(id, <<>>, noIndex, "ok")
  \/ \E id \in {IdA, IdB}, force \in BOOLEAN :
        cmdUpdate(id, <<>>, FALSE, force, "ok")
  \/ InstallFile("ok")
  \/ InstallIndex
  \/ \E id \in {IdA, IdB} : cmdRemove(id, <<>>, "ok")
  \/ cmdDoctor("ok")
  \/ cmdOutdated("ok")
  \/ \E i \in pending : OutdatedLookup(i, TRUE)
  \/ OutdatedFinish
  \/ Exit

CleanSpec == CleanInit /\ [][CleanNext]_vars

\* the hooks installed into the root and not removed since
KeptIn(baseDir) == {k \in kept : k.baseDir = baseDir}

\* doctor printed no line of an inconsistency
NoInconsistency ==
  \A i \in 1..Len(out) : out[i].t \in {"ok", "all good", "no installed hooks"}

\* the hook is listed by the inventory, and the listed file exists and its
\* header decodes to the listed id
ListedAndSound(id) ==
  \E i \in 1..Len(Locals) :
    /\ Locals[i].id = id
    /\ Exists(fs, Locals[i].file)
    /\ parseLocalHookVersion(fs, Locals[i].file).id = id

\* C37: after successful non-dry installs, updates and removes that started
\* from an empty install root, doctor reports no inconsistency, and every
\* hook installed and not removed is listed by the inventory with a file
\* that exists and whose header decodes to the listed id; hooks of several
\* files and hooks with a file in a directory below the root included
C37_DoctorAllGoodAfterCleanRun ==
  DoctorDone =>
    /\ NoInconsistency
    /\ \A k \in KeptIn(op.baseDir) : ListedAndSound(k.id)

\* the version of the hook in the registry is absent or starts with three
\* numeric parts
ThreeParts(id) == Len(FindEntry(registry, id).meta.version) \in {0} \cup 3..4

\* C37 for runs in which the last install of every hook still installed
\* maintained the index, the versions being of three parts
C37_DoctorAllGoodWithIndex ==
  (DoctorDone /\ \A k \in kept : k.addIndex /\ ThreeParts(k.id)) =>
    /\ NoInconsistency
    /\ \A k \in KeptIn(op.baseDir) : ListedAndSound(k.id)

\* a hook of two files installed without index: the scan lists the file
\* below the root under its base name, and doctor reports an id mismatch
C37_MismatchOfSecondFile ==
  ~(/\ DoctorDone
    /\ kept = {[id |-> IdB, baseDir |-> DefaultBaseDir, addIndex |-> FALSE]}
    /\ \E i \in 1..Len(out) : out[i].t = "id mismatch")

\* an installed hook that the inventory does not list: installed without
\* index before another install created the index
C37_KeptNotListed ==
  ~(/\ DoctorDone
    /\ \E k \in KeptIn(op.baseDir) : k.id \notin ListedIds(fs, dirs, op.baseDir))

\* doctor after two hooks were installed with the index, one of two files
C37_WitnessWithIndex ==
  /\ DoctorDone
  /\ {k.id : k \in kept} = {IdA, IdB}
  /\ \A k \in kept : k.addIndex /\ ThreeParts(k.id)
  /\ out[Len(out)].t = "all good"

(***************************************************************************)
(* outdated right after an install                                         *)
(***************************************************************************)
\* C38: outdated, run right after a successful non-dry add or update of a
\* hook against the same registry snapshot, does not report that hook,
\* whatever version the registry metadata carries
C38_NotOutdatedAfterInstall ==
  (OutdatedDone /\ prev.installed) => prev.id \notin Reported

\* C38 for the versions that are absent or start with three numeric parts
C38_NotOutdatedAfterInstallThreeParts ==
  (OutdatedDone /\ prev.installed /\ ThreeParts(prev.id)) =>
    prev.id \notin Reported

\* the hook just installed is reported with the local version 0.0.0
C38_ReportedAtZero ==
  ~(/\ OutdatedDone /\ prev.installed
    /\ \E i \in 1..Len(out) :
         /\ out[i].t = "outdated" /\ out[i].id = prev.id
         /\ out[i].local = ZeroVersion /\ out[i].remote = <<1, 2>>)

\* under Spec: the hook was installed with --path into another root than the
\* configured one, and outdated reports the older copy of the configured root
C38_ReportedFromConfiguredRoot ==
  ~(/\ OutdatedDone /\ prev.installed /\ prev.baseDir # op.baseDir
    /\ prev.id \in Reported)

\* outdated has looked up the hook just installed and reports nothing
C38_Witness ==
  /\ OutdatedDone /\ prev.installed /\ ThreeParts(prev.id)
  /\ \E i \in 1..Len(Locals) : Locals[i].id = prev.id
  /\ out = << Line("up to date", <<>>, <<>>, <<>>) >>

\* the same for a version of four parts
C38_WitnessFourParts ==
  /\ OutdatedDone /\ prev.installed /\ prev.id = IdB /\ registry = OddVersions
  /\ \E i \in 1..Len(Locals) : Locals[i].id = prev.id
  /\ Reported = {}

(***************************************************************************)
(* migrate and the inventory                                               *)
(***************************************************************************)
\* a migrate to a directory that did not exist has completed
MigrateToFresh == MigrateDone /\ NewRoot \notin dirs0

\* the identifiers are those of the old root, and the listed files exist
InventoryCarriedOver ==
  LET locals == listLocalHooks(fs, dirs, NewRoot)
  IN /\ ListedIds(fs, dirs, NewRoot) = ListedIds(fs0, dirs0, OldRoot)
     /\ \A i \in 1..Len(locals) :
          Exists(fs, locals[i].file) /\ IsPrefix(NewRoot, locals[i].file.dir)

\* C39: migrate preserves the inventory: after a successful migrate into a
\* fresh directory listLocalHooks returns for the new root the identifiers
\* it returned for the old root before, and every listed file exists under
\* the new root
C39_MigrateKeepsInventory == MigrateToFresh => InventoryCarriedOver

\* no two source files below the old root share a base name, and every item
\* of the old inventory has its file
OldRootFlat ==
  /\ \A p, q \in OldFiles :
       (IsSourceFile(p) /\ IsSourceFile(q) /\ p.name = q.name) => p = q
  /\ LET locals == listLocalHooks(fs0, dirs0, OldRoot)
     IN \A i \in 1..Len(locals) : Exists(fs0, locals[i].file)

\* C39 for old roots without two files of one base name and without items
\* whose file is missing
C39_MigrateKeepsInventoryFlat ==
  (MigrateToFresh /\ OldRootFlat) => InventoryCarriedOver

\* the index.ts of a directory below the old root replaced the root's own in
\* the copy, and the new inventory lacks a hook the old one had
C39_IndexOfSubdirectoryWins ==
  ~(/\ MigrateToFresh
    /\ \A i \in 1..Len(listLocalHooks(fs0, dirs0, OldRoot)) :
         Exists(fs0, listLocalHooks(fs0, dirs0, OldRoot)[i].file)
    /\ Exists(fs0, IndexTs(OldRoot))
    /\ fs[IndexTs(NewRoot)] # fs0[IndexTs(OldRoot)]
    /\ ListedIds(fs0, dirs0, OldRoot) \ ListedIds(fs, dirs, NewRoot) # {})

\* a root with an index and a file below it was migrated
C39_Witness ==
  /\ MigrateToFresh /\ OldRootFlat
  /\ Exists(fs0, IndexTs(OldRoot))
  /\ \E p \in OldFiles : p.dir # OldRoot
  /\ ListedIds(fs, dirs, NewRoot) # {}

\* a root without index was migrated
C39_WitnessScan ==
  /\ MigrateToFresh /\ OldRootFlat
  /\ ~Exists(fs0, IndexTs(OldRoot)) /\ ~Exists(fs0, IndexJs(OldRoot))
  /\ Cardinality(ListedIds(fs, dirs, NewRoot)) >= 2

====
